---- MODULE Spec2Model ----
\* Token lifecycle and login core of the authentication server:
\* TokenService / AuthService (src/src/services/auth.service.ts), the auth and
\* user controllers (src/src/controllers/user.controller.ts), the authenticate
\* middleware (src/src/middleware/validation.middleware.ts) and the passport
\* local strategy (src/src/config/passport.ts).
EXTENDS Integers, Sequences, FiniteSets, TLC

\* ---------------------------------------------------------------- bounds
MaxTime == 4
MaxRows == 3
NumCalls == 2
MaxList == 1
MaxRequired == 2
MaxRandom == 2
MaxUsers == 3

\* ------------------------------------------------------ program constants
\* Date values are milliseconds, JWT iat/exp are seconds (exp * 1000).
MsPerSec == 2
\* JWT_ACCESS_EXPIRES_IN / JWT_REFRESH_EXPIRES_IN, in seconds.
AccessExpiresIn == 1
RefreshExpiresIn == 2
ResetExpiresIn == 2
VerificationExpiresIn == 3

NULL == "null"
Issuer == "auth-server"
Audience == "auth-client"

Secrets == {"k1", "k2"}
UserIds == {"u1", "u2"}
Passwords == {"p1", "p2"}
StoredEmails == {"a@x", "b@x"}
InputEmails == {"a@x", "A@x", "b@x", "c@x"}
RoleOrder == <<"admin", "user">>
PermOrder == <<"users:write", "profile:read">>
RoleNames == {RoleOrder[i] : i \in 1..Len(RoleOrder)}
PermNames == {PermOrder[i] : i \in 1..Len(PermOrder)}
CallIds == 1..NumCalls
Times == 0..(MaxTime + 1)

\* email.toLowerCase()
toLowerCase(e) == IF e = "A@x" THEN "a@x" ELSE IF e = "C@x" THEN "c@x" ELSE e

\* Role table: permissions of each role, in the order the store returns them.
RolePermissions == [admin |-> <<"users:write", "profile:read">>, user |-> <<"profile:read">>]

\* ------------------------------------------------------------- bcrypt
bcryptHash(pw) == <<"bcrypt", pw>>
bcryptCompare(pw, hash) == hash = <<"bcrypt", pw>>

\* ------------------------------------------------------ Date / clock
\* Math.floor(Date.now() / 1000), as jsonwebtoken computes iat and checks exp.
ClockTimestamp(ms) == ms \div MsPerSec
\* new Date(decoded.exp * 1000)
DateOfExp(exp) == exp * MsPerSec

\* ------------------------------------------------------ jsonwebtoken
\* jwt.sign(payload, secret, {expiresIn, issuer, audience}): the claims are the
\* payload plus iss, aud, iat, exp; the signature is keyed by the secret.
JwtSign(payload, secret, expiresIn, ms) ==
  [claims |-> [userId |-> payload.userId, email |-> payload.email,
               roles |-> payload.roles, permissions |-> payload.permissions,
               type |-> payload.type, iss |-> Issuer, aud |-> Audience,
               iat |-> ClockTimestamp(ms),
               exp |-> ClockTimestamp(ms) + expiresIn],
   sig |-> secret]

\* jwt.decode(token): the claims, without any check.
JwtDecode(token) == token.claims

\* jwt.verify(token, secret, {issuer, audience}): signature, then expiry, then
\* audience and issuer.
JwtVerify(token, secret, ms) ==
  IF token.sig # secret THEN [ok |-> FALSE, error |-> "JsonWebTokenError"]
  ELSE IF ClockTimestamp(ms) >= token.claims.exp
         THEN [ok |-> FALSE, error |-> "TokenExpiredError"]
  ELSE IF token.claims.aud # Audience \/ token.claims.iss # Issuer
         THEN [ok |-> FALSE, error |-> "JsonWebTokenError"]
  ELSE [ok |-> TRUE, decoded |-> token.claims]

\* TokenExpiredError extends JsonWebTokenError in jsonwebtoken.
InstanceOfJsonWebTokenError(e) == e \in {"JsonWebTokenError", "TokenExpiredError"}
InstanceOfTokenExpiredError(e) == e = "TokenExpiredError"

\* ---------------------------------------------------------------- state
VARIABLES
  now,               \* Date.now(), in milliseconds
  config,            \* config.jwt: accessSecret, refreshSecret
  users,             \* prisma.user rows, by id
  refreshTokens,     \* prisma.refreshToken rows
  blacklistedTokens, \* prisma.blacklistedToken rows
  calls,             \* refreshTokens calls in flight, by request
  random,            \* how many random tokens crypto.randomBytes has produced
  defaultRole,       \* the name of the prisma.role row with isDefault true, or none
  registrations,     \* register calls in flight: past the existing-user check, before the create
  redeemed,          \* refresh token -> how many refreshTokens calls returned a pair for it
                     \* (all of them, and those that ran concurrently with another call on it)
  revokedAllSeen,    \* refresh tokens that had a row when revokeAllUserTokens completed for their user
  passwordChanged,   \* refresh tokens that had a row when a password change of their user succeeded
  blacklistCalls,    \* access tokens passed to blacklistAccessToken, with the time of the call
  loggedOut,         \* refresh tokens of the pairs presented to a logout request that returned success
  lastLogin,         \* the last password login attempt: its case and the answer it got
  minted,            \* the last tokens minted by the token service, with their payload
  input,             \* the payload the token service is exercised with
  issuedFor,         \* the last pair login or refreshTokens returned, with the user row it read
  lastAuthz,         \* the last authorization check: the request and the answer
  lastRefresh,       \* the last refreshTokens call: the row it met and the answer
  held,              \* refresh tokens handed to clients
  revokeFailed,      \* refresh tokens exchanged for a pair by a call whose revoke update failed
  lastLogout,        \* the last AuthService.logout call: its arguments, the store faults it met, its error
  lastPassword,      \* the last changePassword or resetPassword call: what it met, what it stored, its answer
  lastForgot,        \* the last forgotPassword request: the account it met and the response
  lastLogoutAll,     \* the last logoutAll request: who, the cookie, both tables before and after
  signup,            \* the last registration: what register issued, and the logins with its credentials
  lastOAuth,         \* the last OAuth callback: the profile, the account it resulted in, what was issued
  parentOf,          \* refresh token -> the refresh token whose rotation created its row
  revokedInFlight,   \* refresh tokens already revoked when the refreshTokens call that had checked them created their successor
  lastCleanup,       \* the last cleanupExpiredTokens call: which deleteMany failed, how many rows went, whether the call threw, and a bit flipped by every call
  lastAuthn,         \* the last request through authenticate: its token, whether the blacklist lookup failed, whether the token had a blacklist row not yet expired, and whether the request was admitted
  lastRequest,       \* the last request through authenticate and an authorization predicate: the user the token names, what was required, what the token's claims would grant, and the answers
  localStorage,      \* the bundled client: the tokens in its localStorage, the refreshToken cookie of its browser, whether the page shares the API's origin, and the successful refreshes of its session
  track              \* which of the history variables above this run records

vars == <<now, config, users, refreshTokens, blacklistedTokens, calls, random,
          defaultRole, registrations,
          redeemed, revokedAllSeen, passwordChanged, blacklistCalls, loggedOut,
          lastLogin, minted, input, issuedFor, lastAuthz, lastRefresh, held,
          revokeFailed, lastLogout,
          lastPassword,
          lastForgot,
          lastLogoutAll,
          signup,
          lastOAuth,
          parentOf,
          revokedInFlight,
          lastCleanup,
          lastAuthn,
          lastRequest,
          localStorage, track>>

ghosts == <<redeemed, revokedAllSeen, passwordChanged, blacklistCalls, loggedOut,
            lastLogin, minted, input, issuedFor, lastAuthz, lastRefresh, held,
            revokeFailed,
            lastLogout,
            lastPassword,
            lastForgot,
            lastLogoutAll,
            signup,
            lastOAuth,
            parentOf,
            revokedInFlight,
            lastCleanup,
            lastAuthn,
            lastRequest,
            localStorage>>

\* A history variable takes its new value only in the runs that record it.
Record(which, new, old) == IF track = which THEN new ELSE old

\* The history variables an action does not record are left as they are, and
\* so are the count of random tokens when the action draws none, the register
\* calls in flight when the action is not a step of register, and the role
\* table's default (no operation here writes the role table).
Unrecorded(changed) ==
  /\ IF "random" \in changed THEN TRUE ELSE UNCHANGED random
  /\ IF "registrations" \in changed THEN TRUE ELSE UNCHANGED registrations
  /\ IF "redeemed" \in changed THEN TRUE ELSE UNCHANGED redeemed
  /\ IF "revokedAllSeen" \in changed THEN TRUE ELSE UNCHANGED revokedAllSeen
  /\ IF "passwordChanged" \in changed THEN TRUE ELSE UNCHANGED passwordChanged
  /\ IF "blacklistCalls" \in changed THEN TRUE ELSE UNCHANGED blacklistCalls
  /\ IF "loggedOut" \in changed THEN TRUE ELSE UNCHANGED loggedOut
  /\ IF "lastLogin" \in changed THEN TRUE ELSE UNCHANGED lastLogin
  /\ IF "minted" \in changed THEN TRUE ELSE UNCHANGED minted
  /\ IF "issuedFor" \in changed THEN TRUE ELSE UNCHANGED issuedFor
  /\ IF "lastAuthz" \in changed THEN TRUE ELSE UNCHANGED lastAuthz
  /\ IF "lastRefresh" \in changed THEN TRUE ELSE UNCHANGED lastRefresh
  /\ IF "held" \in changed THEN TRUE ELSE UNCHANGED held
  /\ IF "revokeFailed" \in changed THEN TRUE ELSE UNCHANGED revokeFailed
  /\ IF "lastLogout" \in changed THEN TRUE ELSE UNCHANGED lastLogout
  /\ IF "lastPassword" \in changed THEN TRUE ELSE UNCHANGED lastPassword
  /\ IF "lastForgot" \in changed THEN TRUE ELSE UNCHANGED lastForgot
  /\ IF "lastLogoutAll" \in changed THEN TRUE ELSE UNCHANGED lastLogoutAll
  /\ IF "signup" \in changed THEN TRUE ELSE UNCHANGED signup
  /\ IF "lastOAuth" \in changed THEN TRUE ELSE UNCHANGED lastOAuth
  /\ IF "parentOf" \in changed THEN TRUE ELSE UNCHANGED parentOf
  /\ IF "revokedInFlight" \in changed THEN TRUE ELSE UNCHANGED revokedInFlight
  /\ IF "lastCleanup" \in changed THEN TRUE ELSE UNCHANGED lastCleanup
  /\ IF "lastAuthn" \in changed THEN TRUE ELSE UNCHANGED lastAuthn
  /\ IF "lastRequest" \in changed THEN TRUE ELSE UNCHANGED lastRequest
  /\ IF "localStorage" \in changed THEN TRUE ELSE UNCHANGED localStorage
  /\ UNCHANGED <<input, track, defaultRole>>

\* ------------------------------------------------- permission flattening
InSeq(x, s) == \E i \in 1..Len(s) : s[i] = x

\* [...new Set(list)]: first occurrences, in order.
RECURSIVE NewSet(_)
NewSet(s) ==
  IF s = <<>> THEN <<>>
  ELSE LET r == NewSet(SubSeq(s, 1, Len(s) - 1))
       IN IF InSeq(s[Len(s)], r) THEN r ELSE Append(r, s[Len(s)])

\* The rows of a relation, in store order.
RowsOf(S, order) == SelectSeq(order, LAMBDA x : x \in S)

RECURSIVE FlatMapPermissions(_)
FlatMapPermissions(roleSeq) ==
  IF roleSeq = <<>> THEN <<>>
  ELSE RolePermissions[Head(roleSeq)] \o FlatMapPermissions(Tail(roleSeq))

\* user.roles.map(role => role.name)
RoleNamesOf(user) == RowsOf(user.roles, RoleOrder)

\* Fault variant: the concatenation without the Set.
AllPermissions_NoSet(user) ==
  FlatMapPermissions(RowsOf(user.roles, RoleOrder)) \o RowsOf(user.permissions, PermOrder)

\* rolePermissions, userPermissions, allPermissions of login / refreshTokens.
AllPermissions(user) ==
  NewSet(FlatMapPermissions(RowsOf(user.roles, RoleOrder))
         \o RowsOf(user.permissions, PermOrder))

\* ------------------------------------------------------- TokenService
generateAccessToken(payload, ms) ==
  JwtSign([userId |-> payload.userId, email |-> payload.email,
           roles |-> payload.roles, permissions |-> payload.permissions,
           type |-> "access"],
          config.accessSecret, AccessExpiresIn, ms)

\* Fault variant: the refresh token signed with the access secret.
generateRefreshToken_AccessSecret(payload, ms) ==
  JwtSign([userId |-> payload.userId, email |-> payload.email,
           roles |-> payload.roles, permissions |-> payload.permissions,
           type |-> "refresh"],
          config.accessSecret, RefreshExpiresIn, ms)

generateRefreshToken(payload, ms) ==
  JwtSign([userId |-> payload.userId, email |-> payload.email,
           roles |-> payload.roles, permissions |-> payload.permissions,
           type |-> "refresh"],
          config.refreshSecret, RefreshExpiresIn, ms)

\* Fault variant: verifyAccessToken without the check of the type claim.
verifyAccessToken_NoTypeCheck(token, ms) ==
  LET v == JwtVerify(token, config.accessSecret, ms) IN
  IF v.ok THEN [ok |-> TRUE, decoded |-> v.decoded]
  ELSE IF InstanceOfJsonWebTokenError(v.error)
      THEN [ok |-> FALSE, message |-> "Invalid access token"]
  ELSE IF InstanceOfTokenExpiredError(v.error)
      THEN [ok |-> FALSE, message |-> "Access token expired"]
  ELSE [ok |-> FALSE, message |-> v.error]

\* The outcome of both verify functions: the decoded payload or the message of
\* the AuthenticationError thrown.
verifyAccessToken(token, ms) ==
  LET v == JwtVerify(token, config.accessSecret, ms) IN
  IF v.ok THEN
    IF v.decoded.type # "access"
      THEN [ok |-> FALSE, message |-> "Invalid token type"]
      ELSE [ok |-> TRUE, decoded |-> v.decoded]
  ELSE IF InstanceOfJsonWebTokenError(v.error)
      THEN [ok |-> FALSE, message |-> "Invalid access token"]
  ELSE IF InstanceOfTokenExpiredError(v.error)
      THEN [ok |-> FALSE, message |-> "Access token expired"]
  ELSE [ok |-> FALSE, message |-> v.error]

verifyRefreshToken(token, ms) ==
  LET v == JwtVerify(token, config.refreshSecret, ms) IN
  IF v.ok THEN
    IF v.decoded.type # "refresh"
      THEN [ok |-> FALSE, message |-> "Invalid token type"]
      ELSE [ok |-> TRUE, decoded |-> v.decoded]
  ELSE IF InstanceOfJsonWebTokenError(v.error)
      THEN [ok |-> FALSE, message |-> "Invalid refresh token"]
  ELSE IF InstanceOfTokenExpiredError(v.error)
      THEN [ok |-> FALSE, message |-> "Refresh token expired"]
  ELSE [ok |-> FALSE, message |-> v.error]

\* prisma.refreshToken.findUnique({where: {token}})
FindRefreshToken(rows, token) == {r \in rows : r.token = token}

\* Fault variant: expiresAt computed from the time of the store and the
\* configured lifetime in whole units of the clock, not from the token.
RefreshTokenRow_FromClock(token, userId) ==
  [token |-> token, userId |-> userId,
   expiresAt |-> DateOfExp(JwtDecode(token).iat) + RefreshExpiresIn, isRevoked |-> FALSE]

\* storeRefreshToken: the row created for a refresh token; expiresAt is taken
\* from the decoded exp claim.
RefreshTokenRow(token, userId) ==
  [token |-> token, userId |-> userId,
   expiresAt |-> DateOfExp(JwtDecode(token).exp), isRevoked |-> FALSE]

\* The create fails on the unique token column when a row holds the same string.
StoreRefreshTokenFails(rows, token) == FindRefreshToken(rows, token) # {}

\* generateTokenPair: the pair minted at time ms.
TokenPair(userId, email, roles, permissions, ms) ==
  LET payload == [userId |-> userId, email |-> email, roles |-> roles,
                  permissions |-> permissions]
  IN [accessToken |-> generateAccessToken(payload, ms),
      refreshToken |-> generateRefreshToken(payload, ms)]

\* prisma.refreshToken.update({where: {token}, data: {isRevoked: true}}): the
\* rows afterwards, and the error thrown when no row has the token.
RefreshTokenUpdate(rows, token) ==
  IF FindRefreshToken(rows, token) = {}
    THEN [error |-> "RecordNotFound", rows |-> rows]
    ELSE [error |-> NULL,
          rows |-> {IF r.token = token THEN [r EXCEPT !.isRevoked = TRUE] ELSE r : r \in rows}]

\* Fault variant: revokeRefreshToken rethrowing, as revokeAllUserTokens does.
RevokeRefreshTokenOutcome_Rethrow(rows, token) == RefreshTokenUpdate(rows, token)

\* revokeRefreshToken: the update of the one row; its error is caught and
\* logged, never thrown.
RevokeRefreshTokenOutcome(rows, token) ==
  [error |-> NULL, rows |-> RefreshTokenUpdate(rows, token).rows]

\* The store after revokeRefreshToken(token).
revokeRefreshToken(rows, token) == RevokeRefreshTokenOutcome(rows, token).rows

\* Fault variant: the bulk update selecting the rows already revoked.
revokeAllUserTokens_RevokedOnly(rows, userId) ==
  {IF r.userId = userId /\ r.isRevoked THEN [r EXCEPT !.isRevoked = TRUE] ELSE r : r \in rows}

\* revokeAllUserTokens: updateMany({userId, isRevoked: false}, {isRevoked: true})
revokeAllUserTokens(rows, userId) ==
  {IF r.userId = userId /\ ~r.isRevoked THEN [r EXCEPT !.isRevoked = TRUE] ELSE r : r \in rows}

\* isTokenBlacklisted at time ms over the given rows: findUnique({token}) and
\* new Date() < expiresAt; the catch returns false when the lookup fails.
isTokenBlacklistedOver(rows, token, ms, lookupFails) ==
  IF lookupFails THEN FALSE
  ELSE \E b \in rows : b.token = token /\ ms < b.expiresAt

\* isTokenBlacklisted
isTokenBlacklisted(token) == isTokenBlacklistedOver(blacklistedTokens, token, now, FALSE)

\* ------------------------------------------------------------ helpers
NoToken ==
  [claims |-> [userId |-> NULL, email |-> NULL, roles |-> <<>>, permissions |-> <<>>,
               type |-> "none", iss |-> NULL, aud |-> NULL, iat |-> 0, exp |-> 0],
   sig |-> NULL]

NoPair == [accessToken |-> NoToken, refreshToken |-> NoToken]

\* The part of a user row (with its roles and permissions included) that the
\* token payload is computed from.
UserRow(u) == [id |-> u, roles |-> users[u].roles, permissions |-> users[u].permissions]

NoUserRow == [id |-> NULL, roles |-> {}, permissions |-> {}]

IdleCall ==
  [pc |-> "idle", token |-> NoToken, userId |-> NULL, email |-> NULL,
   roles |-> <<>>, permissions |-> <<>>, pair |-> NoPair, overlapped |-> FALSE,
   user |-> NoUserRow]

InFlight(c) == calls[c].pc \in {"issue", "revoke"}

\* The access token minted together with a refresh token: same payload, same
\* second.
AccessTokenOf(refreshToken) ==
  generateAccessToken(JwtDecode(refreshToken), DateOfExp(JwtDecode(refreshToken).iat))

\* The tokens clients hold: those of the pairs returned so far whose row is
\* still stored (a pair under issuance by a refreshTokens call has not been
\* returned yet).
IssuedRefresh ==
  {r.token : r \in refreshTokens} \ {calls[c].pair.refreshToken : c \in CallIds}
IssuedAccess == {AccessTokenOf(t) : t \in IssuedRefresh}

\* prisma.user.findUnique({where: {email}})
FindUserByEmail(email) == {u \in DOMAIN users : users[u].email = email}

\* The users at the start: u1 registered with a password, u2 was created by
\* an OAuth callback (no password hash, email verified by the provider).
UserRows(active1, verified1, active2) ==
  [u \in UserIds |->
     [email |-> IF u = "u1" THEN "a@x" ELSE "b@x",
      password |-> IF u = "u1" THEN bcryptHash("p1") ELSE NULL,
      isActive |-> IF u = "u1" THEN active1 ELSE active2,
      emailVerified |-> IF u = "u1" THEN verified1 ELSE TRUE,
      roles |-> IF u = "u1" THEN {"user"} ELSE {"admin", "user"},
      permissions |-> IF u = "u1" THEN {} ELSE {"profile:read"},
      lastLoginAt |-> NULL,
      emailVerificationToken |-> NULL, emailVerificationExpires |-> NULL,
      passwordResetToken |-> NULL, passwordResetExpires |-> NULL,
      googleId |-> IF u = "u1" THEN NULL ELSE "g2"]]

\* Both accounts active, u1's email verified.
InitialUsers == UserRows(TRUE, TRUE, TRUE)

NoLogin ==
  [path |-> "none", case |-> "none", isActive |-> FALSE, emailVerified |-> FALSE,
   status |-> 0, message |-> NULL, issued |-> FALSE]

NoPayload == [userId |-> NULL, email |-> NULL, roles |-> <<>>, permissions |-> <<>>]

NoIssue == [via |-> "none", user |-> NoUserRow, old |-> NoToken, pair |-> NoPair]

NoAuthz ==
  [kind |-> "none", required |-> <<>>, user |-> NoUserRow, target |-> NULL,
   status |-> 0, message |-> NULL]

NoRefresh ==
  [token |-> NoToken, hadRow |-> FALSE, revoked |-> FALSE, rowExpired |-> FALSE,
   disabled |-> FALSE, message |-> NULL, issued |-> FALSE]

NoLogout ==
  [called |-> FALSE, accessToken |-> NoToken, refreshToken |-> NoToken,
   blacklistFails |-> FALSE, revokeFails |-> FALSE, wasBlacklisted |-> FALSE,
   error |-> NULL]

NoPasswordCall ==
  [op |-> "none", token |-> NULL, userId |-> NULL, matched |-> FALSE, persisted |-> FALSE,
   revokeFails |-> FALSE, status |-> 0, message |-> NULL,
   tokenLive |-> FALSE, changed |-> FALSE, hashStored |-> FALSE, cleared |-> FALSE,
   allRevoked |-> FALSE]

NoForgot ==
  [called |-> FALSE, email |-> NULL, exists |-> FALSE, active |-> FALSE, mailFails |-> FALSE,
   status |-> 0, message |-> NULL]

NoSignup ==
  [userId |-> NULL, email |-> NULL, password |-> NULL, token |-> NULL,
   verified |-> FALSE,
   login |-> [called |-> FALSE, verified |-> FALSE, first |-> FALSE, status |-> 0,
              message |-> NULL, roles |-> <<>>]]

NoOAuth ==
  [called |-> FALSE, profile |-> [id |-> NULL, email |-> NULL], known |-> FALSE,
   userId |-> NULL, active |-> FALSE, emailVerified |-> FALSE, roles |-> {},
   redirect |-> NULL, issued |-> FALSE, rowCreated |-> FALSE]

NoLogoutAll ==
  [called |-> FALSE, userId |-> NULL, currentRefreshToken |-> NoToken,
   rowsBefore |-> {}, rowsAfter |-> {}, blacklistBefore |-> {}, blacklistAfter |-> {}]

NoMint ==
  [kind |-> "none", payload |-> NoPayload, accessToken |-> NoToken,
   refreshToken |-> NoToken, at |-> 0]

\* No request made yet.
InitRequests ==
  /\ now = 0
  /\ random = 0
  /\ registrations = {}
  /\ blacklistedTokens = {}
  /\ calls = [c \in CallIds |-> IdleCall]
  /\ redeemed = <<>>
  /\ revokedAllSeen = {}
  /\ passwordChanged = {}
  /\ blacklistCalls = {}
  /\ loggedOut = {}
  /\ lastLogin = NoLogin
  /\ minted = NoMint
  /\ issuedFor = NoIssue
  /\ lastAuthz = NoAuthz
  /\ lastRefresh = NoRefresh
  /\ revokeFailed = {}
  /\ localStorage = [accessToken |-> NoToken, refreshToken |-> NoToken, cookie |-> NoToken, sameOrigin |-> FALSE, refreshes |-> 0]
  /\ lastRequest = [called |-> FALSE, flip |-> FALSE, userId |-> "none", kind |-> "none", required |-> <<>>, claimsPass |-> FALSE, admitted |-> FALSE, message |-> "none", passed |-> FALSE]
  /\ lastAuthn = [called |-> FALSE, lookupFails |-> FALSE, blacklisted |-> FALSE, ok |-> FALSE, message |-> "none"]
  /\ lastCleanup = [called |-> FALSE, flip |-> FALSE, refreshFails |-> FALSE, blacklistFails |-> FALSE, deletedRefresh |-> 0, deletedBlacklist |-> 0, thrown |-> FALSE]
  /\ revokedInFlight = {}
  /\ parentOf = <<>>
  /\ lastOAuth = NoOAuth
  /\ signup = NoSignup
  /\ lastLogoutAll = NoLogoutAll
  /\ lastForgot = NoForgot
  /\ lastPassword = NoPasswordCall
  /\ lastLogout = NoLogout

\* The role table has the role user as its default.
InitShared == InitRequests /\ defaultRole = "user"

InitCommon == InitShared /\ held = {}

InitStore ==
  /\ InitCommon
  /\ config = [accessSecret |-> "k1", refreshSecret |-> "k2"]
  /\ users = InitialUsers
  /\ refreshTokens = {}
  /\ input = NoPayload

Init ==
  /\ InitStore
  /\ track = "redeemed"

\* The clock advances.
Tick ==
  /\ now < MaxTime
  /\ now' = now + 1
  /\ UNCHANGED <<config, users, refreshTokens, blacklistedTokens, calls>>
  /\ Unrecorded({})

\* ------------------------------------------------------ AuthService.login
\* Fault variant: login checking emailVerified before isActive.
LoginOutcome_VerifiedFirst(email, password) ==
  LET found == FindUserByEmail(toLowerCase(email)) IN
  IF found = {} THEN [ok |-> FALSE, status |-> 401, message |-> "Invalid email or password", userId |-> NULL]
  ELSE LET u == CHOOSE x \in found : TRUE IN
    IF users[u].password = NULL
      THEN [ok |-> FALSE, status |-> 401, message |-> "Invalid email or password", userId |-> u]
    ELSE IF ~bcryptCompare(password, users[u].password)
      THEN [ok |-> FALSE, status |-> 401, message |-> "Invalid email or password", userId |-> u]
    ELSE IF ~users[u].emailVerified
      THEN [ok |-> FALSE, status |-> 401,
            message |-> "Please verify your email address before signing in", userId |-> u]
    ELSE IF ~users[u].isActive
      THEN [ok |-> FALSE, status |-> 401, message |-> "Your account has been disabled", userId |-> u]
    ELSE [ok |-> TRUE, status |-> 200, message |-> "Login successful", userId |-> u]

\* The checks of login, in order: the error thrown, or "ok" with the user.
LoginOutcome(email, password) ==
  LET found == FindUserByEmail(toLowerCase(email)) IN
  IF found = {} THEN [ok |-> FALSE, status |-> 401, message |-> "Invalid email or password", userId |-> NULL]
  ELSE LET u == CHOOSE x \in found : TRUE IN
    IF users[u].password = NULL
      THEN [ok |-> FALSE, status |-> 401, message |-> "Invalid email or password", userId |-> u]
    ELSE IF ~bcryptCompare(password, users[u].password)
      THEN [ok |-> FALSE, status |-> 401, message |-> "Invalid email or password", userId |-> u]
    ELSE IF ~users[u].isActive
      THEN [ok |-> FALSE, status |-> 401, message |-> "Your account has been disabled", userId |-> u]
    ELSE IF ~users[u].emailVerified
      THEN [ok |-> FALSE, status |-> 401,
            message |-> "Please verify your email address before signing in", userId |-> u]
    ELSE [ok |-> TRUE, status |-> 200, message |-> "Login successful", userId |-> u]

\* The pair login generates for a user at the current time.
LoginPair(u) ==
  TokenPair(u, users[u].email, RoleNamesOf(users[u]), AllPermissions(users[u]), now)

\* Fault variant: the pair returned although its row could not be stored.
LoginResponse_StoreIgnored(email, password) ==
  LET out == LoginOutcome(email, password) IN
  IF ~out.ok THEN [status |-> out.status, message |-> out.message, tokens |-> NoPair]
  ELSE [status |-> 200, message |-> out.message, tokens |-> LoginPair(out.userId)]

\* What POST /api/auth/login answers: status, message, the access token of the
\* body and the refreshToken cookie.
LoginResponse(email, password) ==
  LET out == LoginOutcome(email, password) IN
  IF ~out.ok THEN [status |-> out.status, message |-> out.message, tokens |-> NoPair]
  ELSE IF StoreRefreshTokenFails(refreshTokens, LoginPair(out.userId).refreshToken)
    THEN [status |-> 500, message |-> "Internal server error", tokens |-> NoPair]
  ELSE [status |-> 200, message |-> out.message, tokens |-> LoginPair(out.userId)]

\* POST /api/auth/login: the controller and AuthService.login. lastLoginAt is
\* stamped before the pair is generated and stored.
login(email, password) ==
  LET out == LoginOutcome(email, password)
      res == LoginResponse(email, password)
  IN IF ~out.ok
       THEN UNCHANGED <<users, refreshTokens>>
       ELSE /\ Cardinality(refreshTokens) < MaxRows
            /\ users' = [users EXCEPT ![out.userId].lastLoginAt = now]
            /\ IF res.status = 200
                 THEN refreshTokens' = refreshTokens \cup
                        {RefreshTokenRow(res.tokens.refreshToken, out.userId)}
                 ELSE UNCHANGED refreshTokens

\* Which of the credential cases an attempt is, from the stored row alone.
CredentialCase(email, password) ==
  LET found == FindUserByEmail(toLowerCase(email)) IN
  IF found = {} THEN "no_user"
  ELSE LET u == CHOOSE x \in found : TRUE IN
    IF users[u].password = NULL THEN "no_password"
    ELSE IF users[u].password # bcryptHash(password) THEN "wrong_password"
    ELSE "match"

\* A login attempt as seen from outside: its case, the account's flags and the
\* answer.
LoginObservation(path, email, password, res) ==
  LET found == FindUserByEmail(toLowerCase(email)) IN
  [path |-> path, case |-> CredentialCase(email, password),
   isActive |-> \E u \in found : users[u].isActive,
   emailVerified |-> \E u \in found : users[u].emailVerified,
   status |-> res.status, message |-> res.message, issued |-> res.tokens # NoPair]

Login ==
  \E email \in InputEmails, password \in Passwords :
    /\ login(email, password)
    /\ lastLogin' = Record("lastLogin",
                           LoginObservation("login", email, password,
                                            LoginResponse(email, password)),
                           lastLogin)
    /\ issuedFor' = Record("issuedFor",
                           IF LoginResponse(email, password).status = 200
                             THEN [via |-> "login",
                                   user |-> UserRow(LoginOutcome(email, password).userId),
                                   old |-> NoToken,
                                   pair |-> LoginResponse(email, password).tokens]
                             ELSE issuedFor,
                           issuedFor)
    /\ held' = Record("lastRefresh",
                      IF LoginResponse(email, password).status = 200
                        THEN held \cup {LoginResponse(email, password).tokens.refreshToken}
                        ELSE held,
                      held)
    /\ UNCHANGED <<now, config, blacklistedTokens, calls>>
    /\ Unrecorded({"lastLogin", "issuedFor", "held"})

\* ------------------------------------------------ passport LocalStrategy
\* The verify callback of the local strategy: the error handed to done, or the
\* user.
LocalStrategyOutcome(email, password) ==
  LET found == FindUserByEmail(toLowerCase(email)) IN
  IF found = {} THEN [ok |-> FALSE, status |-> 401, message |-> "Invalid email or password", userId |-> NULL]
  ELSE LET u == CHOOSE x \in found : TRUE IN
    IF users[u].password = NULL
      THEN [ok |-> FALSE, status |-> 401,
            message |-> "Please sign in using your social media account", userId |-> u]
    ELSE IF ~bcryptCompare(password, users[u].password)
      THEN [ok |-> FALSE, status |-> 401, message |-> "Invalid email or password", userId |-> u]
    ELSE IF ~users[u].isActive
      THEN [ok |-> FALSE, status |-> 401, message |-> "Your account has been disabled", userId |-> u]
    ELSE IF ~users[u].emailVerified
      THEN [ok |-> FALSE, status |-> 401,
            message |-> "Please verify your email address before signing in", userId |-> u]
    ELSE [ok |-> TRUE, status |-> 200, message |-> "ok", userId |-> u]

\* A local-strategy authentication: lastLoginAt is stamped on success; the
\* strategy issues no tokens.
LocalLogin ==
  \E email \in InputEmails, password \in Passwords :
    LET out == LocalStrategyOutcome(email, password) IN
    /\ users' = IF out.ok THEN [users EXCEPT ![out.userId].lastLoginAt = now] ELSE users
    /\ lastLogin' = Record("lastLogin",
                           LoginObservation("local", email, password,
                                            [status |-> out.status, message |-> out.message,
                                             tokens |-> NoPair]),
                           lastLogin)
    /\ UNCHANGED <<now, config, refreshTokens, blacklistedTokens, calls>>
    /\ Unrecorded({"lastLogin"})

\* ------------------------------------------- TokenService.refreshTokens
\* Verification, row lookup and the three checks on the row read.
RefreshCheckOver(rows, token, ms) ==
  LET v == verifyRefreshToken(token, ms)
      stored == FindRefreshToken(rows, token)
  IN IF ~v.ok THEN [ok |-> FALSE, message |-> v.message]
     ELSE IF stored = {} \/ (\E r \in stored : r.isRevoked)
       THEN [ok |-> FALSE, message |-> "Refresh token is invalid or revoked"]
     ELSE IF \E r \in stored : ms > r.expiresAt
       THEN [ok |-> FALSE, message |-> "Refresh token expired"]
     ELSE IF \E r \in stored : ~users[r.userId].isActive
       THEN [ok |-> FALSE, message |-> "User account is disabled"]
     ELSE [ok |-> TRUE, message |-> "ok"]

\* The checks of a refreshTokens call made now on the stored rows.
RefreshCheck(token) == RefreshCheckOver(refreshTokens, token, now)

\* Fault variant: the new pair carrying the claims of the token presented.
RefreshClaims_FromToken(token, user) ==
  [roles |-> JwtDecode(token).roles, permissions |-> JwtDecode(token).permissions]

\* The roles and permissions refreshTokens puts in the new pair: those of the
\* user row it read with the token's row.
RefreshClaims(token, user) ==
  [roles |-> RoleNamesOf(user), permissions |-> AllPermissions(user)]

\* What a refreshTokens call met when it looked the token up, and its answer
\* so far.
RefreshObservation(token, out) ==
  LET stored == FindRefreshToken(refreshTokens, token) IN
  [token |-> token,
   hadRow |-> stored # {},
   revoked |-> \E r \in stored : r.isRevoked,
   rowExpired |-> \E r \in stored : now > r.expiresAt,
   disabled |-> \E r \in stored : ~users[r.userId].isActive,
   message |-> out.message,
   issued |-> FALSE]

\* verifyRefreshToken and findUnique (with the user, roles and permissions); a
\* failed check ends the call with the error. Requests are anonymous: a new one
\* takes the first free slot.
RefreshStart(c) ==
  \E token \in IssuedRefresh \cup IssuedAccess \cup held :
    LET out == RefreshCheck(token)
        others == {d \in CallIds \ {c} : InFlight(d) /\ calls[d].token = token}
    IN /\ ~InFlight(c)
       /\ \A d \in CallIds : d < c => InFlight(d)
       /\ IF ~out.ok
            THEN UNCHANGED calls
            ELSE LET row == CHOOSE r \in FindRefreshToken(refreshTokens, token) : TRUE
                     user == users[row.userId]
                 IN calls' = [d \in CallIds |->
                       IF d = c THEN [IdleCall EXCEPT !.pc = "issue", !.token = token,
                                        !.userId = row.userId, !.email = user.email,
                                        !.roles = RefreshClaims(token, user).roles,
                                        !.permissions =
                                          RefreshClaims(token, user).permissions,
                                        !.user = UserRow(row.userId),
                                        !.overlapped = others # {}]
                       ELSE IF d \in others THEN [calls[d] EXCEPT !.overlapped = TRUE]
                       ELSE calls[d]]
       /\ lastRefresh' = Record("lastRefresh", RefreshObservation(token, out), lastRefresh)
       /\ UNCHANGED <<now, config, users, refreshTokens, blacklistedTokens>>
       /\ Unrecorded({"lastRefresh"})

\* generateTokenPair from the row read; a failed create fails the call.
RefreshIssue(c) ==
  LET k == calls[c]
      pair == TokenPair(k.userId, k.email, k.roles, k.permissions, now)
  IN /\ k.pc = "issue"
     /\ Cardinality(refreshTokens) < MaxRows
     /\ IF StoreRefreshTokenFails(refreshTokens, pair.refreshToken)
          THEN /\ calls' = [calls EXCEPT ![c] = IdleCall]
               /\ UNCHANGED refreshTokens
          ELSE /\ refreshTokens' = refreshTokens \cup {RefreshTokenRow(pair.refreshToken, k.userId)}
               /\ calls' = [calls EXCEPT ![c].pc = "revoke", ![c].pair = pair]
     /\ parentOf' = Record("parentOf",
                           IF StoreRefreshTokenFails(refreshTokens, pair.refreshToken)
                             THEN parentOf
                             ELSE [t \in DOMAIN parentOf \cup {pair.refreshToken} |->
                                     IF t = pair.refreshToken THEN k.token ELSE parentOf[t]],
                           parentOf)
     /\ revokedInFlight' = Record("parentOf",
                                  IF /\ ~StoreRefreshTokenFails(refreshTokens, pair.refreshToken)
                                     /\ \E r \in FindRefreshToken(refreshTokens, k.token) :
                                          r.isRevoked
                                    THEN revokedInFlight \cup {k.token}
                                    ELSE revokedInFlight,
                                  revokedInFlight)
     /\ UNCHANGED <<now, config, users, blacklistedTokens>>
     /\ Unrecorded({"parentOf", "revokedInFlight"})

Redeem(f, token, overlapped) ==
  LET old == IF token \in DOMAIN f THEN f[token] ELSE [total |-> 0, concurrent |-> 0]
      new == [total |-> old.total + 1,
              concurrent |-> old.concurrent + (IF overlapped THEN 1 ELSE 0)]
  IN [t \in DOMAIN f \cup {token} |-> IF t = token THEN new ELSE f[t]]

\* revokeRefreshToken(old) and the return of the new pair.
RefreshRevoke(c) ==
  LET k == calls[c] IN
  /\ k.pc = "revoke"
  /\ refreshTokens' = revokeRefreshToken(refreshTokens, k.token)
  /\ calls' = [calls EXCEPT ![c] = IdleCall]
  /\ redeemed' = Record("redeemed", Redeem(redeemed, k.token, k.overlapped), redeemed)
  /\ issuedFor' = Record("issuedFor",
                         [via |-> "refresh", user |-> k.user, old |-> k.token, pair |-> k.pair],
                         issuedFor)
  /\ lastRefresh' = Record("lastRefresh", [lastRefresh EXCEPT !.issued = TRUE], lastRefresh)
  /\ held' = Record("lastRefresh", held \cup {k.pair.refreshToken}, held)
  /\ UNCHANGED <<now, config, users, blacklistedTokens>>
  /\ Unrecorded({"redeemed", "issuedFor", "lastRefresh", "held"})

\* The last step when the store fails the update: revokeRefreshToken catches
\* and logs the error, the row stays as it is and the call returns the pair.
RefreshRevokeFails(c) ==
  LET k == calls[c] IN
  /\ k.pc = "revoke"
  /\ calls' = [calls EXCEPT ![c] = IdleCall]
  /\ revokeFailed' = Record("revokeFailed", revokeFailed \cup {k.token}, revokeFailed)
  /\ redeemed' = Record("redeemed", Redeem(redeemed, k.token, k.overlapped), redeemed)
  /\ issuedFor' = Record("issuedFor",
                         [via |-> "refresh", user |-> k.user, old |-> k.token, pair |-> k.pair],
                         issuedFor)
  /\ lastRefresh' = Record("lastRefresh", [lastRefresh EXCEPT !.issued = TRUE], lastRefresh)
  /\ held' = Record("lastRefresh", held \cup {k.pair.refreshToken}, held)
  /\ UNCHANGED <<now, config, users, refreshTokens, blacklistedTokens>>
  /\ Unrecorded({"revokeFailed", "redeemed", "issuedFor", "lastRefresh", "held"})

\* ------------------------------------------------------------ blacklist
\* Fault variant: the blacklist row expiring at the token's iat.
BlacklistRow_IssuedAt(token) ==
  [token |-> token, expiresAt |-> DateOfExp(JwtDecode(token).iat)]

\* blacklistAccessToken: the row created, if the token decodes and has an exp.
BlacklistRow(token) ==
  [token |-> token, expiresAt |-> DateOfExp(JwtDecode(token).exp)]

\* A second create for the same token string fails on the unique column; the
\* error is caught and logged.
blacklistAccessToken(rows, token) ==
  IF \E b \in rows : b.token = token THEN rows ELSE rows \cup {BlacklistRow(token)}

\* A string that is not a JWT: jwt.decode returns null for it.
MalformedToken == [NoToken EXCEPT !.claims.type = "malformed"]
JwtDecodes(token) == token.claims.type # "malformed"

\* prisma.blacklistedToken.create: fails on the unique token column, or when
\* the store is failing.
BlacklistedTokenCreate(rows, row, storeFails) ==
  IF storeFails THEN [error |-> "StoreError", rows |-> rows]
  ELSE IF \E b \in rows : b.token = row.token
    THEN [error |-> "UniqueConstraint", rows |-> rows]
  ELSE [error |-> NULL, rows |-> rows \cup {row}]

\* Fault variant: blacklistAccessToken letting the error of the create through.
BlacklistAccessTokenOutcome_Rethrow(rows, token, storeFails) ==
  IF JwtDecodes(token) /\ JwtDecode(token).exp # 0
    THEN BlacklistedTokenCreate(rows, BlacklistRow(token), storeFails)
    ELSE [error |-> NULL, rows |-> rows]

\* blacklistAccessToken as a call: the error that leaves it (none: the catch
\* logs it) and the rows afterwards.
BlacklistAccessTokenOutcome(rows, token, storeFails) ==
  IF JwtDecodes(token) /\ JwtDecode(token).exp # 0
    THEN [error |-> NULL,
          rows |-> BlacklistedTokenCreate(rows, BlacklistRow(token), storeFails).rows]
    ELSE [error |-> NULL, rows |-> rows]

\* revokeRefreshToken as a call over a store whose update may fail.
RevokeRefreshTokenUnder(rows, token, storeFails) ==
  IF storeFails THEN [error |-> NULL, rows |-> rows]
  ELSE RevokeRefreshTokenOutcome(rows, token)

\* AuthService.logout(accessToken, refreshToken): the first error that leaves
\* one of the two calls, and both tables afterwards.
AuthServiceLogout(accessToken, refreshToken, blacklistFails, revokeFails) ==
  LET b == BlacklistAccessTokenOutcome(blacklistedTokens, accessToken, blacklistFails)
      r == RevokeRefreshTokenUnder(refreshTokens, refreshToken, revokeFails)
  IN IF b.error # NULL
       THEN [error |-> b.error, blacklistedTokens |-> b.rows, refreshTokens |-> refreshTokens]
       ELSE [error |-> r.error, blacklistedTokens |-> b.rows, refreshTokens |-> r.rows]

\* Fault variant: authenticate trusting the verified token, without the user
\* lookup.
AuthenticateOver_TokenOnly(rows, token, ms, lookupFails) ==
  LET v == verifyAccessToken(token, ms) IN
  IF isTokenBlacklistedOver(rows, token, ms, lookupFails)
    THEN [ok |-> FALSE, status |-> 401, message |-> "Token is invalid"]
  ELSE IF ~v.ok THEN [ok |-> FALSE, status |-> 401, message |-> v.message]
  ELSE [ok |-> TRUE, status |-> 200, message |-> "ok", userId |-> v.decoded.userId]

\* authenticate middleware at time ms over the given blacklist rows: blacklist
\* check, verifyAccessToken, user lookup.
AuthenticateOver(rows, token, ms, lookupFails) ==
  LET v == verifyAccessToken(token, ms) IN
  IF isTokenBlacklistedOver(rows, token, ms, lookupFails)
    THEN [ok |-> FALSE, status |-> 401, message |-> "Token is invalid"]
  ELSE IF ~v.ok THEN [ok |-> FALSE, status |-> 401, message |-> v.message]
  ELSE IF v.decoded.userId \notin DOMAIN users
    THEN [ok |-> FALSE, status |-> 401, message |-> "User not found"]
  ELSE IF ~users[v.decoded.userId].isActive
    THEN [ok |-> FALSE, status |-> 401, message |-> "User account is disabled"]
  ELSE [ok |-> TRUE, status |-> 200, message |-> "ok", userId |-> v.decoded.userId]

\* authenticate over a store that answers the blacklist lookup.
AuthenticateOutcome(token) == AuthenticateOver(blacklistedTokens, token, now, FALSE)

\* A request with a bearer token through authenticate, over a store whose
\* blacklist lookup may fail.
Authenticate ==
  \E token \in IssuedAccess, lookupFails \in BOOLEAN :
    LET out == AuthenticateOver(blacklistedTokens, token, now, lookupFails) IN
    /\ lastAuthn' = Record("lastAuthn",
                           [called |-> TRUE, lookupFails |-> lookupFails,
                            blacklisted |->
                              \E b \in blacklistedTokens : b.token = token /\ b.expiresAt > now,
                            ok |-> out.ok, message |-> out.message],
                           lastAuthn)
    /\ UNCHANGED <<now, config, users, refreshTokens, blacklistedTokens, calls>>
    /\ Unrecorded({"lastAuthn"})

\* POST /api/auth/logout: the access token comes from the Authorization
\* header, the refresh token from the refreshToken cookie only; AuthService.logout
\* runs when both are present. The client presents the refresh token of its
\* pair either in the cookie or in the request body.
Logout ==
  \E token \in IssuedRefresh, carrier \in {"cookie", "body"} :
    LET accessToken == AccessTokenOf(token)
        cookie == IF carrier = "cookie" THEN token ELSE NoToken
    IN /\ IF cookie # NoToken
            THEN /\ blacklistedTokens' = blacklistAccessToken(blacklistedTokens, accessToken)
                 /\ refreshTokens' = revokeRefreshToken(refreshTokens, cookie)
                 /\ blacklistCalls' = Record("blacklistCalls", blacklistCalls \cup {accessToken},
                                             blacklistCalls)
            ELSE UNCHANGED <<blacklistedTokens, refreshTokens, blacklistCalls>>
       /\ loggedOut' = Record("loggedOut", loggedOut \cup {token}, loggedOut)
       /\ UNCHANGED <<now, config, users, calls>>
       /\ Unrecorded({"blacklistCalls", "loggedOut"})

\* AuthService.logout called with any token strings a client may send, over a
\* store that may fail either write.
LogoutOverFaults ==
  \E accessToken \in IssuedAccess \cup {MalformedToken},
     refreshToken \in IssuedRefresh \cup {MalformedToken},
     blacklistFails \in BOOLEAN, revokeFails \in BOOLEAN :
    LET out == AuthServiceLogout(accessToken, refreshToken, blacklistFails, revokeFails) IN
    /\ blacklistedTokens' = out.blacklistedTokens
    /\ refreshTokens' = out.refreshTokens
    /\ lastLogout' = Record("lastLogout",
                            [called |-> TRUE, accessToken |-> accessToken,
                             refreshToken |-> refreshToken,
                             blacklistFails |-> blacklistFails, revokeFails |-> revokeFails,
                             wasBlacklisted |->
                               \E b \in blacklistedTokens : b.token = accessToken,
                             error |-> out.error],
                            lastLogout)
    /\ UNCHANGED <<now, config, users, calls>>
    /\ Unrecorded({"lastLogout"})

\* Fault variant: the bulk update writing isRevoked as "is not the current
\* token" into every row of the user.
logoutAll_Reinstating(rows, userId, currentRefreshToken) ==
  {IF r.userId = userId
     THEN [r EXCEPT !.isRevoked = (r.token # currentRefreshToken)]
     ELSE r : r \in rows}

\* Fault variant: logoutAll without the exclusion of the current token.
logoutAll_NoExclusion(rows, userId, currentRefreshToken) ==
  {IF r.userId = userId /\ ~r.isRevoked THEN [r EXCEPT !.isRevoked = TRUE] ELSE r : r \in rows}

\* AuthService.logoutAll: updateMany({userId, isRevoked: false, token: {not:
\* currentRefreshToken}}, {isRevoked: true}); the token condition is there only
\* when currentRefreshToken is given.
logoutAll(rows, userId, currentRefreshToken) ==
  {IF /\ r.userId = userId
      /\ ~r.isRevoked
      /\ (currentRefreshToken = NoToken \/ r.token # currentRefreshToken)
     THEN [r EXCEPT !.isRevoked = TRUE]
     ELSE r : r \in rows}

\* POST /api/auth/logout-all: authenticate, then AuthService.logoutAll with the
\* refreshToken cookie, if the request has one.
LogoutAll ==
  \E token \in IssuedAccess, cookie \in IssuedRefresh \cup {NoToken} :
    LET auth == AuthenticateOutcome(token) IN
    /\ auth.ok
    /\ refreshTokens' = logoutAll(refreshTokens, auth.userId, cookie)
    /\ lastLogoutAll' = Record("lastLogoutAll",
                               [called |-> TRUE, userId |-> auth.userId,
                                currentRefreshToken |-> cookie,
                                rowsBefore |-> refreshTokens, rowsAfter |-> refreshTokens',
                                blacklistBefore |-> blacklistedTokens,
                                blacklistAfter |-> blacklistedTokens],
                               lastLogoutAll)
    /\ UNCHANGED <<now, config, users, blacklistedTokens, calls>>
    /\ Unrecorded({"lastLogoutAll"})

\* Fault variant: the sweep deleting the rows that expire within the next second.
cleanupExpiredTokens_Early(rows) == {r \in rows : ~(r.expiresAt < now + MsPerSec)}

\* Fault variant: the sweep deleting the rows whose expiresAt is now as well.
cleanupExpiredTokens_Through(rows) == {r \in rows : ~(r.expiresAt <= now)}

\* cleanupExpiredTokens: deleteMany({expiresAt: {lt: now}}) on both tables.
cleanupExpiredTokens(rows) == {r \in rows : ~(r.expiresAt < now)}

\* cleanupExpiredTokens over a store that may fail either deleteMany: both sit
\* in one try block, so a failure of the first skips the second, and the catch
\* logs the error and returns.
CleanupOverFaults ==
  \E refreshFails \in BOOLEAN, blacklistFails \in BOOLEAN :
    /\ refreshTokens' = IF refreshFails THEN refreshTokens
                        ELSE cleanupExpiredTokens(refreshTokens)
    /\ blacklistedTokens' = IF refreshFails \/ blacklistFails THEN blacklistedTokens
                            ELSE cleanupExpiredTokens(blacklistedTokens)
    /\ lastCleanup' = Record("lastCleanup",
                             [called |-> TRUE, flip |-> ~lastCleanup.flip,
                              refreshFails |-> refreshFails,
                              blacklistFails |-> ~refreshFails /\ blacklistFails,
                              deletedRefresh |-> Cardinality(refreshTokens \ refreshTokens'),
                              deletedBlacklist |->
                                Cardinality(blacklistedTokens \ blacklistedTokens'),
                              thrown |-> FALSE],
                             lastCleanup)
    /\ UNCHANGED <<now, config, users, calls>>
    /\ Unrecorded({"lastCleanup"})

Cleanup ==
  /\ refreshTokens' = cleanupExpiredTokens(refreshTokens)
  /\ blacklistedTokens' = cleanupExpiredTokens(blacklistedTokens)
  /\ UNCHANGED <<now, config, users, calls>>
  /\ Unrecorded({})

\* ------------------------------------------------------ password change
TokensOfUser(u) == {r.token : r \in {x \in refreshTokens : x.userId = u}}

\* POST /api/auth/change-password: authenticate, then AuthService.changePassword,
\* which stores the new hash and calls revokeAllUserTokens.
AuthChangePassword ==
  \E token \in IssuedAccess, currentPassword \in Passwords, newPassword \in Passwords :
    LET auth == AuthenticateOutcome(token) IN
    /\ auth.ok
    /\ LET u == auth.userId IN
       IF users[u].password = NULL \/ ~bcryptCompare(currentPassword, users[u].password)
         THEN UNCHANGED <<users, refreshTokens, revokedAllSeen, passwordChanged>>
         ELSE /\ users' = [users EXCEPT ![u].password = bcryptHash(newPassword)]
              /\ refreshTokens' = revokeAllUserTokens(refreshTokens, u)
              /\ revokedAllSeen' = Record("revokedAllSeen", revokedAllSeen \cup TokensOfUser(u),
                                           revokedAllSeen)
              /\ passwordChanged' = Record("passwordChanged", passwordChanged \cup TokensOfUser(u),
                                            passwordChanged)
    /\ UNCHANGED <<now, config, blacklistedTokens, calls>>
    /\ Unrecorded({"revokedAllSeen", "passwordChanged"})

\* PATCH /api/user/password: authenticate, then the user controller's
\* changePassword, which stores the new hash and does nothing else.
UserChangePassword ==
  \E token \in IssuedAccess, currentPassword \in Passwords, newPassword \in Passwords :
    LET auth == AuthenticateOutcome(token) IN
    /\ auth.ok
    /\ LET u == auth.userId IN
       IF users[u].password = NULL \/ ~bcryptCompare(currentPassword, users[u].password)
         THEN UNCHANGED <<users, passwordChanged>>
         ELSE /\ users' = [users EXCEPT ![u].password = bcryptHash(newPassword)]
              /\ passwordChanged' = Record("passwordChanged", passwordChanged \cup TokensOfUser(u),
                                            passwordChanged)
    /\ UNCHANGED <<now, config, refreshTokens, blacklistedTokens, calls>>
    /\ Unrecorded({"passwordChanged"})

\* ------------------------------------------------------ errors, boundary
NoError == [statusCode |-> 0, message |-> NULL]

\* Fault variant: AuthorizationError carrying the status of AuthenticationError.
AuthorizationError_Unauthenticated(message) == [statusCode |-> 401, message |-> message]

AuthenticationError(message) == [statusCode |-> 401, message |-> message]
AuthorizationError(message) == [statusCode |-> 403, message |-> message]

\* What a middleware does: next() or next(error).
NextCalled == [next |-> TRUE, error |-> NoError]
NextError(error) == [next |-> FALSE, error |-> error]

\* errorHandler: the status and message of the response.
errorHandler(error) ==
  IF error.statusCode # 0
    THEN [status |-> error.statusCode, message |-> error.message]
    ELSE [status |-> 500, message |-> "Internal server error"]

\* The response to a request that met one middleware: the handler's 200 when
\* next() was called, the error handler's answer otherwise.
Respond(outcome) ==
  IF outcome.next THEN [status |-> 200, message |-> "ok"] ELSE errorHandler(outcome.error)

\* ------------------------------------------------------ password reset
\* crypto.randomBytes(32).toString('hex'): the n-th value drawn; no two alike.
RandomHex(n) == ToString(n)
RandomTokens == {RandomHex(n) : n \in 1..(MaxRandom + 1)}

\* Fault variant: the lookup by reset token without the expiry condition.
FindUserByResetToken_NoExpiry(token) ==
  {u \in DOMAIN users : users[u].passwordResetToken = token}

\* prisma.user.findFirst({passwordResetToken: token, passwordResetExpires: {gt: now}})
FindUserByResetToken(token) ==
  {u \in DOMAIN users : /\ users[u].passwordResetToken = token
                        /\ users[u].passwordResetExpires > now}

\* revokeAllUserTokens as a call over a store whose updateMany may fail: the
\* catch logs the error and throws it again.
RevokeAllUserTokensOutcome(rows, userId, storeFails) ==
  IF storeFails THEN [error |-> "StoreError", rows |-> rows]
  ELSE [error |-> NULL, rows |-> revokeAllUserTokens(rows, userId)]

\* What a route answers for an error that is not an AppError (no statusCode).
StoreErrorResponse == errorHandler(NoError)

\* POST /api/auth/forgot-password, AuthService.forgotPassword: status and
\* message of the response for a given users table.
ForgotPasswordResponse(table, email, mailFails) ==
  LET found == {u \in DOMAIN table : table[u].email = toLowerCase(email)} IN
  IF found = {}
    THEN [status |-> 200,
          message |-> "If an account with that email exists, a password reset link has been sent."]
  ELSE IF \E u \in found : ~table[u].isActive
    THEN errorHandler(AuthenticationError("Your account has been disabled"))
  ELSE IF mailFails THEN StoreErrorResponse
  ELSE [status |-> 200,
        message |-> "If an account with that email exists, a password reset link has been sent."]

\* The reset token and its expiry are stored before the mail is sent.
ForgotPassword ==
  \E email \in InputEmails, mailFails \in BOOLEAN :
    LET found == FindUserByEmail(toLowerCase(email))
        res == ForgotPasswordResponse(users, email, mailFails)
    IN /\ random < MaxRandom
       /\ IF found # {} /\ (\A u \in found : users[u].isActive)
            THEN /\ users' = [u \in DOMAIN users |->
                               IF u \in found
                                 THEN [users[u] EXCEPT
                                         !.passwordResetToken = RandomHex(random + 1),
                                         !.passwordResetExpires = now + ResetExpiresIn]
                                 ELSE users[u]]
                 /\ random' = random + 1
            ELSE UNCHANGED <<users, random>>
       /\ lastForgot' = Record("lastForgot",
                               [called |-> TRUE, email |-> email, exists |-> found # {},
                                active |-> \E u \in found : users[u].isActive,
                                mailFails |-> mailFails,
                                status |-> res.status, message |-> res.message],
                               lastForgot)
       /\ UNCHANGED <<now, config, refreshTokens, blacklistedTokens, calls>>
       /\ Unrecorded({"random", "lastForgot"})

\* POST /api/auth/reset-password, AuthService.resetPassword, over a store whose
\* bulk revocation may fail.
ResetPassword ==
  \E token \in RandomTokens, newPassword \in Passwords, revokeFails \in BOOLEAN :
    LET found == FindUserByResetToken(token)
        u == CHOOSE x \in found : TRUE
        revoked == RevokeAllUserTokensOutcome(refreshTokens, u, revokeFails)
        res == IF found = {}
                 THEN [status |-> 400, message |-> "Invalid or expired reset token"]
               ELSE IF revoked.error # NULL THEN StoreErrorResponse
               ELSE [status |-> 200,
                     message |-> "Password reset successfully. Please sign in with your new password."]
    IN /\ IF found = {}
            THEN UNCHANGED <<users, refreshTokens>>
            ELSE /\ users' = [users EXCEPT ![u].password = bcryptHash(newPassword),
                                           ![u].passwordResetToken = NULL,
                                           ![u].passwordResetExpires = NULL]
                 /\ refreshTokens' = revoked.rows
       /\ lastPassword' = Record("lastPassword",
                                 [op |-> "reset", token |-> token,
                                  userId |-> IF found = {} THEN NULL ELSE u,
                                  matched |-> found # {}, persisted |-> found # {},
                                  revokeFails |-> revokeFails,
                                  status |-> res.status, message |-> res.message,
                                  tokenLive |->
                                    \E x \in DOMAIN users :
                                      /\ users[x].passwordResetToken = token
                                      /\ now < users[x].passwordResetExpires,
                                  changed |-> users' # users \/ refreshTokens' # refreshTokens,
                                  hashStored |->
                                    found # {} /\ users'[u].password = bcryptHash(newPassword),
                                  cleared |->
                                    /\ found # {}
                                    /\ users'[u].passwordResetToken = NULL
                                    /\ users'[u].passwordResetExpires = NULL,
                                  allRevoked |->
                                    /\ found # {}
                                    /\ \A r \in refreshTokens' : r.userId = u => r.isRevoked],
                                 lastPassword)
       /\ UNCHANGED <<now, config, blacklistedTokens, calls>>
       /\ Unrecorded({"lastPassword"})

\* POST /api/auth/change-password over a store whose bulk revocation may fail:
\* authenticate, AuthService.changePassword.
ChangePasswordOverFaults ==
  \E token \in IssuedAccess, currentPassword \in Passwords, newPassword \in Passwords,
     revokeFails \in BOOLEAN :
    LET auth == AuthenticateOutcome(token)
        u == auth.userId
        valid == users[u].password # NULL /\ bcryptCompare(currentPassword, users[u].password)
        revoked == RevokeAllUserTokensOutcome(refreshTokens, u, revokeFails)
        res == IF users[u].password = NULL
                 THEN [status |-> 404, message |-> "User not found"]
               ELSE IF ~valid
                 THEN errorHandler(AuthenticationError("Current password is incorrect"))
               ELSE IF revoked.error # NULL THEN StoreErrorResponse
               ELSE [status |-> 200, message |-> "Password changed successfully"]
    IN /\ auth.ok
       /\ IF ~valid
            THEN UNCHANGED <<users, refreshTokens>>
            ELSE /\ users' = [users EXCEPT ![u].password = bcryptHash(newPassword)]
                 /\ refreshTokens' = revoked.rows
       /\ lastPassword' = Record("lastPassword",
                                 [op |-> "change", token |-> NULL, userId |-> u,
                                  matched |-> valid, persisted |-> valid,
                                  revokeFails |-> revokeFails,
                                  status |-> res.status, message |-> res.message,
                                  tokenLive |-> FALSE,
                                  changed |-> users' # users \/ refreshTokens' # refreshTokens,
                                  hashStored |->
                                    valid /\ users'[u].password = bcryptHash(newPassword),
                                  cleared |-> FALSE,
                                  allRevoked |->
                                    valid /\ \A r \in refreshTokens' : r.userId = u => r.isRevoked],
                                 lastPassword)
       /\ UNCHANGED <<now, config, blacklistedTokens, calls>>
       /\ Unrecorded({"lastPassword"})

\* ------------------------------------------------ permission middleware
\* required.some(x => list.includes(x)) and required.every(x => list.includes(x))
Some(required, list) == \E i \in 1..Len(required) : InSeq(required[i], list)
Every(required, list) == \A i \in 1..Len(required) : InSeq(required[i], list)

\* req.user is the row authenticate attached, or absent (identity = NULL).
hasRole(requiredRoles, identity) ==
  IF identity = NULL THEN NextError(AuthenticationError("User not authenticated"))
  ELSE IF ~Some(requiredRoles, RoleNamesOf(users[identity]))
    THEN NextError(AuthorizationError(<<"Access denied. Required roles: ", requiredRoles>>))
  ELSE NextCalled

\* Fault variant: hasPermission asking for every required permission.
hasPermission_Every(requiredPermissions, identity) ==
  IF identity = NULL THEN NextError(AuthenticationError("User not authenticated"))
  ELSE IF ~Every(requiredPermissions, AllPermissions(users[identity]))
    THEN NextError(AuthorizationError(<<"Access denied. Required permissions: ",
                                        requiredPermissions>>))
  ELSE NextCalled

hasPermission(requiredPermissions, identity) ==
  IF identity = NULL THEN NextError(AuthenticationError("User not authenticated"))
  ELSE IF ~Some(requiredPermissions, AllPermissions(users[identity]))
    THEN NextError(AuthorizationError(<<"Access denied. Required permissions: ",
                                        requiredPermissions>>))
  ELSE NextCalled

hasPermissionAny(requiredPermissions, identity) ==
  IF identity = NULL THEN NextError(AuthenticationError("User not authenticated"))
  ELSE IF ~Some(requiredPermissions, AllPermissions(users[identity]))
    THEN NextError(AuthorizationError(<<"Access denied. Required at least one of: ",
                                        requiredPermissions>>))
  ELSE NextCalled

\* Fault variant: hasPermissionAll asking for some required permission.
hasPermissionAll_Some(requiredPermissions, identity) ==
  IF identity = NULL THEN NextError(AuthenticationError("User not authenticated"))
  ELSE IF ~Some(requiredPermissions, AllPermissions(users[identity]))
    THEN NextError(AuthorizationError(<<"Access denied. Required all of: ",
                                        requiredPermissions>>))
  ELSE NextCalled

hasPermissionAll(requiredPermissions, identity) ==
  IF identity = NULL THEN NextError(AuthenticationError("User not authenticated"))
  ELSE IF ~Every(requiredPermissions, AllPermissions(users[identity]))
    THEN NextError(AuthorizationError(<<"Access denied. Required all of: ",
                                        requiredPermissions>>))
  ELSE NextCalled

\* Fault variant: isOwnerOrHasPermission without the owner check.
isOwnerOrHasPermission_NoOwner(resourceUserId, requiredPermissions, identity) ==
  IF identity = NULL THEN NextError(AuthenticationError("User not authenticated"))
  ELSE IF ~Some(requiredPermissions, AllPermissions(users[identity]))
    THEN NextError(AuthorizationError(
           "Access denied. You can only access your own resources or need appropriate permissions."))
  ELSE NextCalled

\* resourceUserId is what getResourceUserId(req) returns.
isOwnerOrHasPermission(resourceUserId, requiredPermissions, identity) ==
  IF identity = NULL THEN NextError(AuthenticationError("User not authenticated"))
  ELSE IF identity = resourceUserId THEN NextCalled
  ELSE IF ~Some(requiredPermissions, AllPermissions(users[identity]))
    THEN NextError(AuthorizationError(
           "Access denied. You can only access your own resources or need appropriate permissions."))
  ELSE NextCalled

\* targetUserId is req.params.id || req.params.userId.
isSelfOrHasRole(targetUserId, requiredRoles, identity) ==
  IF identity = NULL THEN NextError(AuthenticationError("User not authenticated"))
  ELSE IF identity = targetUserId THEN NextCalled
  ELSE IF ~Some(requiredRoles, RoleNamesOf(users[identity]))
    THEN NextError(AuthorizationError(
           "Access denied. You can only access your own resources or need appropriate roles."))
  ELSE NextCalled

\* A request through one middleware of the factory: who authenticate attached
\* (nobody when identity = NULL), what the route requires, and the response.
Identities == UserIds \cup {NULL}
RequiredLists(S) == UNION {[1..n -> S] : n \in 0..MaxRequired}

AuthzObservation(kind, required, identity, target, outcome) ==
  [kind |-> kind, required |-> required,
   user |-> IF identity = NULL THEN NoUserRow ELSE UserRow(identity),
   target |-> target,
   status |-> Respond(outcome).status, message |-> Respond(outcome).message]

\* A middleware changes nothing in the store.
AuthzFrame ==
  /\ UNCHANGED <<now, config, users, refreshTokens, blacklistedTokens, calls>>
  /\ Unrecorded({"lastAuthz"})

HasRole ==
  \E requiredRoles \in RequiredLists(RoleNames), identity \in Identities :
    /\ lastAuthz' = Record("lastAuthz",
         AuthzObservation("hasRole", requiredRoles, identity, NULL,
                                   hasRole(requiredRoles, identity)),
         lastAuthz)
    /\ AuthzFrame

HasPermission ==
  \E requiredPermissions \in RequiredLists(PermNames), identity \in Identities :
    /\ lastAuthz' = Record("lastAuthz",
         AuthzObservation("hasPermission", requiredPermissions, identity, NULL,
                                   hasPermission(requiredPermissions, identity)),
         lastAuthz)
    /\ AuthzFrame

HasPermissionAny ==
  \E requiredPermissions \in RequiredLists(PermNames), identity \in Identities :
    /\ lastAuthz' = Record("lastAuthz",
         AuthzObservation("hasPermissionAny", requiredPermissions, identity, NULL,
                                   hasPermissionAny(requiredPermissions, identity)),
         lastAuthz)
    /\ AuthzFrame

HasPermissionAll ==
  \E requiredPermissions \in RequiredLists(PermNames), identity \in Identities :
    /\ lastAuthz' = Record("lastAuthz",
         AuthzObservation("hasPermissionAll", requiredPermissions, identity, NULL,
                                   hasPermissionAll(requiredPermissions, identity)),
         lastAuthz)
    /\ AuthzFrame

IsOwnerOrHasPermission ==
  \E requiredPermissions \in RequiredLists(PermNames), identity \in Identities,
     resourceUserId \in UserIds :
    /\ lastAuthz' = Record("lastAuthz",
         AuthzObservation("isOwnerOrHasPermission", requiredPermissions, identity,
                                   resourceUserId,
                                   isOwnerOrHasPermission(resourceUserId, requiredPermissions,
                                                          identity)),
         lastAuthz)
    /\ AuthzFrame

IsSelfOrHasRole ==
  \E requiredRoles \in RequiredLists(RoleNames), identity \in Identities,
     targetUserId \in UserIds :
    /\ lastAuthz' = Record("lastAuthz",
         AuthzObservation("isSelfOrHasRole", requiredRoles, identity, targetUserId,
                                   isSelfOrHasRole(targetUserId, requiredRoles, identity)),
         lastAuthz)
    /\ AuthzFrame

\* ------------------------------------------------------ admin controller
\* The account an administrator edits (the one that holds tokens).
ManagedUsers == {"u1"}

\* PATCH /api/admin/users/:id/status: the account is activated or deactivated.
UpdateUserStatus ==
  \E id \in ManagedUsers, isActive \in BOOLEAN :
    /\ users' = [users EXCEPT ![id].isActive = isActive]
    /\ UNCHANGED <<now, config, refreshTokens, blacklistedTokens, calls>>
    /\ Unrecorded({})

\* DELETE /api/admin/users/:userId/roles/:roleId: the role is disconnected.
RemoveUserRole ==
  \E userId \in ManagedUsers, roleId \in RoleNames :
    /\ users' = [users EXCEPT ![userId].roles = @ \ {roleId}]
    /\ UNCHANGED <<now, config, refreshTokens, blacklistedTokens, calls>>
    /\ Unrecorded({})

\* ------------------------------------------- token service, exercised
\* generateAccessToken(input)
MintAccess ==
  /\ minted' = [kind |-> "access", payload |-> input,
                accessToken |-> generateAccessToken(input, now),
                refreshToken |-> NoToken, at |-> now]
  /\ UNCHANGED <<now, config, users, refreshTokens, blacklistedTokens, calls>>
  /\ Unrecorded({"minted"})

\* generateRefreshToken(input)
MintRefresh ==
  /\ minted' = [kind |-> "refresh", payload |-> input,
                accessToken |-> NoToken,
                refreshToken |-> generateRefreshToken(input, now), at |-> now]
  /\ UNCHANGED <<now, config, users, refreshTokens, blacklistedTokens, calls>>
  /\ Unrecorded({"minted"})

\* generateTokenPair(input): both tokens, and the refresh token's row; a failed
\* create is rethrown and no pair is returned.
GenerateTokenPair ==
  LET pair == TokenPair(input.userId, input.email, input.roles, input.permissions, now) IN
  /\ Cardinality(refreshTokens) < MaxRows
  /\ IF StoreRefreshTokenFails(refreshTokens, pair.refreshToken)
       THEN UNCHANGED <<refreshTokens, minted>>
       ELSE /\ refreshTokens' = refreshTokens \cup
                                  {RefreshTokenRow(pair.refreshToken, input.userId)}
            /\ minted' = [kind |-> "pair", payload |-> input,
                          accessToken |-> pair.accessToken,
                          refreshToken |-> pair.refreshToken, at |-> now]
  /\ UNCHANGED <<now, config, users, blacklistedTokens, calls>>
  /\ Unrecorded({"minted"})

Next ==
  \/ Tick
  \/ Login
  \/ \E c \in CallIds : RefreshStart(c)
  \/ \E c \in CallIds : RefreshIssue(c)
  \/ \E c \in CallIds : RefreshRevoke(c)
  \/ Logout
  \/ Cleanup
  \/ AuthChangePassword
  \/ UserChangePassword

Spec == Init /\ [][Next]_vars

\* The same system, recording another history variable.
InitRevokeAll == InitStore /\ track = "revokedAllSeen"

\* The operations that issue and redeem refresh tokens, and the password
\* change that revokes all of a user's.
NextRevokeAll ==
  \/ Tick
  \/ Login
  \/ \E c \in CallIds : RefreshStart(c)
  \/ \E c \in CallIds : RefreshIssue(c)
  \/ \E c \in CallIds : RefreshRevoke(c)
  \/ AuthChangePassword

SpecRevokeAll == InitRevokeAll /\ [][NextRevokeAll]_vars

InitPassword == InitStore /\ track = "passwordChanged"
SpecPassword == InitPassword /\ [][Next]_vars

InitBlacklist == InitStore /\ track = "blacklistCalls"

\* The operations that issue tokens and blacklist them.
NextBlacklist ==
  \/ Tick
  \/ Login
  \/ \E c \in CallIds : RefreshStart(c)
  \/ \E c \in CallIds : RefreshIssue(c)
  \/ \E c \in CallIds : RefreshRevoke(c)
  \/ Logout
  \/ Cleanup

SpecBlacklist == InitBlacklist /\ [][NextBlacklist]_vars

InitLogout == InitStore /\ track = "loggedOut"
SpecLogout == InitLogout /\ [][Next]_vars

\* The token service alone, on a payload and a pair of secrets drawn at the
\* start (the two secrets are configured independently and may be equal).
Lists(S) == UNION {[1..n -> S] : n \in 0..MaxList}
Payloads ==
  [userId : UserIds, email : StoredEmails, roles : Lists(RoleNames),
   permissions : Lists(PermNames)]

InitToken ==
  /\ InitCommon
  /\ \E secret \in Secrets : config = [accessSecret |-> "k1", refreshSecret |-> secret]
  /\ users = InitialUsers
  /\ refreshTokens = {}
  /\ input \in Payloads
  /\ track = "minted"

NextToken ==
  \/ MintAccess
  \/ MintRefresh
  \/ GenerateTokenPair
  \/ Tick
  \/ Cleanup

SpecToken == InitToken /\ [][NextToken]_vars

\* The password login paths, on accounts whose flags are drawn at the start.
InitLogin ==
  /\ InitCommon
  /\ config = [accessSecret |-> "k1", refreshSecret |-> "k2"]
  /\ \E active1 \in BOOLEAN, verified1 \in BOOLEAN, active2 \in BOOLEAN :
       users = UserRows(active1, verified1, active2)
  /\ refreshTokens = {}
  /\ input = NoPayload
  /\ track = "lastLogin"

NextLogin ==
  \/ LocalLogin
  \/ Login
  \/ Tick
  \/ Cleanup

SpecLogin == InitLogin /\ [][NextLogin]_vars

\* Login and refresh, one request at a time, while an administrator removes
\* roles; the user's roles and direct permissions are drawn at the start.
InitPerms ==
  /\ InitCommon
  /\ config = [accessSecret |-> "k1", refreshSecret |-> "k2"]
  /\ \E roles \in SUBSET RoleNames, permissions \in SUBSET PermNames :
       users = [InitialUsers EXCEPT !["u1"].roles = roles,
                                    !["u1"].permissions = permissions]
  /\ refreshTokens = {}
  /\ input = NoPayload
  /\ track = "issuedFor"

NextPerms ==
  \/ Tick
  \/ Login
  \/ RefreshStart(1)
  \/ RefreshIssue(1)
  \/ RefreshRevoke(1)
  \/ RemoveUserRole

SpecPerms == InitPerms /\ [][NextPerms]_vars

\* Refresh requests, one at a time, by a client that signed in one second
\* before the start, while tokens expire and are cleaned up and an
\* administrator switches the account off and on.
EarlierToken ==
  LET user == InitialUsers["u1"] IN
  TokenPair("u1", user.email, RoleNamesOf(user), AllPermissions(user),
            0 - MsPerSec).refreshToken

InitRefresh ==
  /\ InitShared
  /\ config = [accessSecret |-> "k1", refreshSecret |-> "k2"]
  /\ users = InitialUsers
  /\ refreshTokens = {RefreshTokenRow(EarlierToken, "u1")}
  /\ held = {EarlierToken}
  /\ input = NoPayload
  /\ track = "lastRefresh"

NextRefresh ==
  \/ Tick
  \/ RefreshStart(1)
  \/ RefreshIssue(1)
  \/ RefreshRevoke(1)
  \/ Cleanup
  \/ UpdateUserStatus

SpecRefresh == InitRefresh /\ [][NextRefresh]_vars

\* Login and refresh, one request at a time, over a store whose update of the
\* old row may fail.
InitFaults == InitStore /\ track = "revokeFailed"

NextFaults ==
  \/ Tick
  \/ Login
  \/ RefreshStart(1)
  \/ RefreshIssue(1)
  \/ RefreshRevoke(1)
  \/ RefreshRevokeFails(1)

SpecFaults == InitFaults /\ [][NextFaults]_vars

\* Login and logout over a store that may fail either write of logout.
InitLogoutFaults == InitStore /\ track = "lastLogout"

NextLogoutFaults ==
  \/ Tick
  \/ Login
  \/ LogoutOverFaults

SpecLogoutFaults == InitLogoutFaults /\ [][NextLogoutFaults]_vars

\* ------------------------------------------------------- registration
ConflictError(message) == [statusCode |-> 409, message |-> message]
ValidationError(message) == [statusCode |-> 400, message |-> message]

\* The addresses registration is asked for: one taken by u1 up to case, one
\* free, in two spellings.
RegisterEmails == {"A@x", "c@x", "C@x"}
\* Those of them that are free at the start.
FreeEmails == {e \in RegisterEmails : \A u \in UserIds : InitialUsers[u].email # toLowerCase(e)}

\* The ids prisma.user.create gives its rows, in order.
UserIdOrder == <<"u1", "u2", "u3", "u4", "u5">>
NewUserId == UserIdOrder[Cardinality(DOMAIN users) + 1]

\* users with one more row.
UserCreate(table, id, row) ==
  [u \in DOMAIN table \cup {id} |-> IF u = id THEN row ELSE table[u]]

\* Fault variant: the row created without connecting the default role.
RegisteredUser_NoRole(email, password, token, ms) ==
  [email |-> toLowerCase(email), password |-> bcryptHash(password),
   isActive |-> TRUE, emailVerified |-> FALSE,
   roles |-> {}, permissions |-> {}, lastLoginAt |-> NULL,
   emailVerificationToken |-> token,
   emailVerificationExpires |-> ms + VerificationExpiresIn,
   passwordResetToken |-> NULL, passwordResetExpires |-> NULL, googleId |-> NULL]

\* The row register creates: lower-cased email, the hash, the verification
\* token with its expiry, the default role when there is one. isActive and
\* emailVerified take the column defaults.
RegisteredUser(email, password, token, ms) ==
  [email |-> toLowerCase(email), password |-> bcryptHash(password),
   isActive |-> TRUE, emailVerified |-> FALSE,
   roles |-> IF defaultRole # NULL THEN {defaultRole} ELSE {},
   permissions |-> {}, lastLoginAt |-> NULL,
   emailVerificationToken |-> token,
   emailVerificationExpires |-> ms + VerificationExpiresIn,
   passwordResetToken |-> NULL, passwordResetExpires |-> NULL, googleId |-> NULL]

\* POST /api/auth/register, first part: the existing-user check on the
\* lower-cased email. The call is answered 409 here or goes on to the create.
RegisterStart ==
  \E email \in RegisterEmails, password \in Passwords :
    /\ Cardinality(registrations) < NumCalls
    /\ FindUserByEmail(toLowerCase(email)) = {}
    /\ registrations' = registrations \cup {[email |-> email, password |-> password]}
    /\ UNCHANGED <<now, config, users, refreshTokens, blacklistedTokens, calls>>
    /\ Unrecorded({"registrations"})

\* POST /api/auth/register, second part: the verification token is drawn and
\* the row created. The email column is unique: when another call has created
\* the address in between, the create throws and the call is answered 500. A
\* failure of the verification mail is caught and changes nothing.
RegisterCreate ==
  \E r \in registrations :
    LET token == RandomHex(random + 1)
        taken == FindUserByEmail(toLowerCase(r.email)) # {}
    IN /\ random < MaxRandom
       /\ taken \/ Cardinality(DOMAIN users) < MaxUsers
       /\ random' = random + 1
       /\ registrations' = registrations \ {r}
       /\ users' = IF taken THEN users
                   ELSE UserCreate(users, NewUserId,
                                   RegisteredUser(r.email, r.password, token, now))
       /\ signup' = Record("signup",
                           IF taken THEN signup
                           ELSE [NoSignup EXCEPT !.userId = NewUserId, !.email = r.email,
                                                 !.password = r.password, !.token = token],
                           signup)
       /\ UNCHANGED <<now, config, refreshTokens, blacklistedTokens, calls>>
       /\ Unrecorded({"random", "registrations", "signup"})

\* findFirst({emailVerificationToken: token, emailVerificationExpires: {gt: now}})
FindUserByVerificationToken(token) ==
  {u \in DOMAIN users : /\ users[u].emailVerificationToken = token
                        /\ users[u].emailVerificationExpires > now}

\* GET /api/auth/verify-email?token=...: the response.
VerifyEmailResponse(token) ==
  IF FindUserByVerificationToken(token) = {}
    THEN errorHandler(ValidationError("Invalid or expired verification token"))
    ELSE [status |-> 200, message |-> "Email verified successfully. You can now sign in."]

\* AuthService.verifyEmail: the user holding the live token is marked verified
\* and both verification fields are cleared. A failure of the welcome mail is
\* caught and changes nothing.
VerifyEmail ==
  \E token \in RandomTokens :
    LET found == FindUserByVerificationToken(token) IN
    /\ users' = [u \in DOMAIN users |->
                   IF u \in found
                     THEN [users[u] EXCEPT !.emailVerified = TRUE,
                                           !.emailVerificationToken = NULL,
                                           !.emailVerificationExpires = NULL]
                     ELSE users[u]]
    /\ signup' = Record("signup",
                        IF token = signup.token /\ found # {}
                          THEN [signup EXCEPT !.verified = TRUE]
                          ELSE signup,
                        signup)
    /\ UNCHANGED <<now, config, refreshTokens, blacklistedTokens, calls>>
    /\ Unrecorded({"signup"})

\* POST /api/auth/login with an address registered after the start.
LoginRegistered ==
  \E email \in FreeEmails, password \in Passwords :
    LET res == LoginResponse(email, password)
        u == signup.userId
    IN /\ login(email, password)
       /\ signup' = Record("signup",
                           IF email = signup.email /\ password = signup.password
                             THEN [signup EXCEPT !.login =
                                     [called |-> TRUE, verified |-> signup.verified,
                                      first |-> \A row \in refreshTokens : row.userId # u,
                                      status |-> res.status, message |-> res.message,
                                      roles |-> IF res.status = 200
                                                  THEN JwtDecode(res.tokens.accessToken).roles
                                                  ELSE <<>>]]
                             ELSE signup,
                           signup)
       /\ UNCHANGED <<now, config, blacklistedTokens, calls>>
       /\ Unrecorded({"signup"})

\* ---------------------------------------------------------- OAuth login
\* The profiles the provider hands to the strategy callback: u2's provider id
\* and a new one, with addresses stored (up to case) and not.
OAuthProfiles == [id : {"g2", "g3"}, email : {"A@x", "c@x"}]

\* findFirst({OR: [{googleId: profile.id}, {email: profile.email.toLowerCase()}]})
OAuthMatch(profile) ==
  {u \in DOMAIN users : \/ users[u].googleId = profile.id
                        \/ users[u].email = toLowerCase(profile.email)}

\* The row created for an unknown profile.
OAuthUser(profile, ms) ==
  [email |-> toLowerCase(profile.email), password |-> NULL,
   isActive |-> TRUE, emailVerified |-> TRUE,
   roles |-> IF defaultRole # NULL THEN {defaultRole} ELSE {},
   permissions |-> {}, lastLoginAt |-> ms,
   emailVerificationToken |-> NULL, emailVerificationExpires |-> NULL,
   passwordResetToken |-> NULL, passwordResetExpires |-> NULL,
   googleId |-> profile.id]

\* handleOAuthLogin up to its isActive check: the users table after the update
\* of the user found (u), or after the create when none was found (u = NULL).
handleOAuthLogin(profile, u) ==
  IF u = NULL
    THEN UserCreate(users, NewUserId, OAuthUser(profile, now))
    ELSE [users EXCEPT ![u].lastLoginAt = now,
                       ![u].googleId = IF @ = NULL THEN profile.id ELSE @]

\* Fault variant: handleOAuthLogin returning the user whatever isActive is.
OAuthAdmits_Always(table, id) == TRUE

\* if (!user.isActive) throw new AuthenticationError(...)
OAuthAdmits(table, id) == table[id].isActive

\* GET /api/auth/google/callback: the strategy callback with handleOAuthLogin,
\* then the controller. An error of the strategy, or of generateTokenPair,
\* redirects to the error page; otherwise the pair is generated, its row
\* stored, and the redirect carries the access token. findFirst has no
\* ordering: when several users match, any of them is the one found.
GoogleCallback ==
  \E profile \in OAuthProfiles : \E u \in OAuthMatch(profile) \cup {NULL} :
    LET id == IF u = NULL THEN NewUserId ELSE u
        table == handleOAuthLogin(profile, u)
        admitted == OAuthAdmits(table, id)
        pair == TokenPair(id, table[id].email, RoleNamesOf(table[id]),
                          AllPermissions(table[id]), now)
        stored == admitted /\ ~StoreRefreshTokenFails(refreshTokens, pair.refreshToken)
    IN /\ (u = NULL) <=> (OAuthMatch(profile) = {})
       /\ (u = NULL) => Cardinality(DOMAIN users) < MaxUsers
       /\ admitted => Cardinality(refreshTokens) < MaxRows
       /\ users' = table
       /\ refreshTokens' = IF stored
                             THEN refreshTokens \cup {RefreshTokenRow(pair.refreshToken, id)}
                             ELSE refreshTokens
       /\ lastOAuth' = Record("lastOAuth",
                              [called |-> TRUE, profile |-> profile, known |-> u # NULL,
                               userId |-> id, active |-> table[id].isActive,
                               emailVerified |-> table[id].emailVerified,
                               roles |-> table[id].roles,
                               redirect |-> IF stored THEN "success" ELSE "oauth_error",
                               issued |-> stored,
                               rowCreated |-> \E row \in refreshTokens' \ refreshTokens :
                                                row.userId = id],
                              lastOAuth)
       /\ issuedFor' = Record("issuedFor",
                              IF stored
                                THEN [via |-> "oauth",
                                      user |-> [id |-> id, roles |-> table[id].roles,
                                                permissions |-> table[id].permissions],
                                      old |-> NoToken, pair |-> pair]
                                ELSE issuedFor,
                              issuedFor)
       /\ UNCHANGED <<now, config, blacklistedTokens, calls>>
       /\ Unrecorded({"lastOAuth", "issuedFor"})

\* ------------------------------------------------------ profile updates
\* The addresses a profile update is asked to store.
ProfileEmails == {"A@x", "c@x"}

\* findFirst({email, NOT: {id}}), asked when the email differs from the stored one.
EmailTaken(id, email) ==
  /\ email # users[id].email
  /\ \E v \in DOMAIN users \ {id} : users[v].email = email

\* PUT /api/users/profile, behind authenticate: the signed-in user's email is
\* replaced by the one sent, as sent, unless another user holds that string.
UpdateProfile ==
  \E token \in IssuedAccess, email \in ProfileEmails :
    LET auth == AuthenticateOutcome(token) IN
    /\ auth.ok
    /\ users' = IF EmailTaken(auth.userId, email) THEN users
                ELSE [users EXCEPT ![auth.userId].email = email]
    /\ UNCHANGED <<now, config, refreshTokens, blacklistedTokens, calls>>
    /\ Unrecorded({})

\* PATCH /api/admin/users/:id, behind authenticate and authorize('admin'): the
\* same replacement on any user.
UpdateUser ==
  \E token \in IssuedAccess, id \in DOMAIN users, email \in ProfileEmails :
    LET auth == AuthenticateOutcome(token) IN
    /\ auth.ok
    /\ "admin" \in users[auth.userId].roles
    /\ users' = IF EmailTaken(id, email) THEN users
                ELSE [users EXCEPT ![id].email = email]
    /\ UNCHANGED <<now, config, refreshTokens, blacklistedTokens, calls>>
    /\ Unrecorded({})

\* A store with sessions open at the start: one of each user signed in at
\* time 0, and an older one of u1.
SessionToken(u) ==
  TokenPair(u, InitialUsers[u].email, RoleNamesOf(InitialUsers[u]),
            AllPermissions(InitialUsers[u]), 0).refreshToken

InitSessions ==
  /\ InitCommon
  /\ config = [accessSecret |-> "k1", refreshSecret |-> "k2"]
  /\ users = InitialUsers
  /\ refreshTokens = {RefreshTokenRow(SessionToken(u), u) : u \in UserIds}
                       \cup {RefreshTokenRow(EarlierToken, "u1")}
  /\ input = NoPayload

\* ---------------------------------------------------------- bundled client
\* POST /api/auth/refresh served in one piece: the controller takes the cookie
\* before the body field, refreshTokens checks, issues and revokes; the body of
\* the answer carries the access token only, the new refresh token goes into
\* the Set-Cookie header.
RefreshResponse(cookie, bodyToken) ==
  LET token == IF cookie # NoToken THEN cookie ELSE bodyToken
      out == RefreshCheck(token)
  IN IF token = NoToken
       THEN [status |-> 401, message |-> "Refresh token is required",
             accessToken |-> NoToken, setCookie |-> NoToken, rows |-> refreshTokens]
     ELSE IF ~out.ok
       THEN [status |-> 401, message |-> out.message,
             accessToken |-> NoToken, setCookie |-> NoToken, rows |-> refreshTokens]
     ELSE LET row == CHOOSE r \in FindRefreshToken(refreshTokens, token) : TRUE
              user == users[row.userId]
              pair == TokenPair(row.userId, user.email, RefreshClaims(token, user).roles,
                                RefreshClaims(token, user).permissions, now)
          IN IF StoreRefreshTokenFails(refreshTokens, pair.refreshToken)
               THEN [status |-> 500, message |-> "Internal server error",
                     accessToken |-> NoToken, setCookie |-> NoToken, rows |-> refreshTokens]
               ELSE [status |-> 200, message |-> "Tokens refreshed successfully",
                     accessToken |-> pair.accessToken, setCookie |-> pair.refreshToken,
                     rows |-> revokeRefreshToken(
                                refreshTokens \cup {RefreshTokenRow(pair.refreshToken, row.userId)},
                                token)]

\* AuthContext.login: authService.login posts the credentials and saveTokens
\* stores response.accessToken and response.refreshToken; the body of the
\* answer has no refreshToken field, so the string "undefined" is stored. The
\* browser keeps the cookie when the page shares the API's origin (the axios
\* instance does not ask for credentials on cross-origin requests).
ClientLogin ==
  \E email \in InputEmails, password \in Passwords, sameOrigin \in BOOLEAN :
    LET res == LoginResponse(email, password) IN
    /\ login(email, password)
    /\ localStorage' = Record("localStorage",
                              IF res.status = 200
                                THEN [accessToken |-> res.tokens.accessToken,
                                      refreshToken |-> MalformedToken,
                                      cookie |-> IF sameOrigin THEN res.tokens.refreshToken
                                                 ELSE NoToken,
                                      sameOrigin |-> sameOrigin, refreshes |-> 0]
                                ELSE localStorage,
                              localStorage)
    /\ UNCHANGED <<now, config, blacklistedTokens, calls>>
    /\ Unrecorded({"localStorage"})

\* The response interceptor after a 401 (and authService.refreshToken): the
\* stored refresh token is posted in the body, the accessToken of the answer is
\* stored and nothing else; a failed refresh clears both stored tokens.
ClientRefresh ==
  LET res == RefreshResponse(localStorage.cookie, localStorage.refreshToken) IN
  /\ localStorage.refreshToken # NoToken
  /\ Cardinality(refreshTokens) < MaxRows
  /\ refreshTokens' = res.rows
  /\ localStorage' = Record("localStorage",
                            IF res.status = 200
                              THEN [localStorage EXCEPT
                                      !.accessToken = res.accessToken,
                                      !.cookie = IF localStorage.sameOrigin THEN res.setCookie
                                                 ELSE NoToken,
                                      !.refreshes = IF @ < NumCalls THEN @ + 1 ELSE @]
                              ELSE [localStorage EXCEPT !.accessToken = NoToken,
                                                        !.refreshToken = NoToken],
                            localStorage)
  /\ UNCHANGED <<now, config, users, blacklistedTokens, calls>>
  /\ Unrecorded({"localStorage"})

\* DELETE /api/admin/users/:id: the user row is deleted, and with it the rows
\* that reference it.
DeleteUser ==
  \E id \in ManagedUsers \cap DOMAIN users :
    /\ users[id].email # "admin@example.com"
    /\ users' = [u \in DOMAIN users \ {id} |-> users[u]]
    /\ refreshTokens' = {r \in refreshTokens : r.userId # id}
    /\ UNCHANGED <<now, config, blacklistedTokens, calls>>
    /\ Unrecorded({})

\* A request to a route guarded by authenticate and then hasRole or
\* hasPermission, with the access token of one of the sessions open at the
\* start.
AuthorizedRequest ==
  \E token \in {AccessTokenOf(SessionToken(u)) : u \in UserIds},
     kind \in {"hasRole", "hasPermission"} :
    \E required \in UNION {[1..n -> IF kind = "hasRole" THEN RoleNames ELSE PermNames] :
                             n \in 0..MaxList} :
      LET auth == AuthenticateOutcome(token)
          identity == IF auth.ok /\ auth.userId \in DOMAIN users THEN auth.userId ELSE NULL
          outcome == IF kind = "hasRole" THEN hasRole(required, identity)
                     ELSE hasPermission(required, identity)
      IN /\ lastRequest' = Record("lastRequest",
                                  [called |-> TRUE, flip |-> ~lastRequest.flip,
                                   userId |-> JwtDecode(token).userId,
                                   kind |-> kind, required |-> required,
                                   claimsPass |->
                                     Some(required, IF kind = "hasRole"
                                                      THEN JwtDecode(token).roles
                                                      ELSE JwtDecode(token).permissions),
                                   admitted |-> auth.ok, message |-> auth.message,
                                   passed |-> auth.ok /\ outcome = NextCalled],
                                  lastRequest)
         /\ UNCHANGED <<now, config, users, refreshTokens, blacklistedTokens, calls>>
         /\ Unrecorded({"lastRequest"})

\* Accounts: forgotten and reset passwords and password changes of the users
\* signed in at the start, over a store whose bulk revocation may fail.
InitAccount == InitSessions /\ track = "lastPassword"

NextAccount ==
  \/ Tick
  \/ ForgotPassword
  \/ ResetPassword
  \/ ChangePasswordOverFaults

SpecAccount == InitAccount /\ [][NextAccount]_vars

\* The users signed in at the start log out, of one session or of all.
InitLogoutAll == InitSessions /\ track = "lastLogoutAll"

NextLogoutAll ==
  \/ Tick
  \/ LogoutAll
  \/ Logout
  \/ Cleanup

SpecLogoutAll == InitLogoutAll /\ [][NextLogoutAll]_vars

\* Registration: new accounts are registered, verified and signed in to, with
\* and without a default role in the role table.
InitRegister ==
  /\ InitRequests
  /\ defaultRole \in {NULL, "user"}
  /\ held = {}
  /\ config = [accessSecret |-> "k1", refreshSecret |-> "k2"]
  /\ users = InitialUsers
  /\ refreshTokens = {}
  /\ input = NoPayload
  /\ track = "signup"

NextRegister ==
  \/ Tick
  \/ RegisterStart
  \/ RegisterCreate
  \/ VerifyEmail
  \/ LoginRegistered

SpecRegister == InitRegister /\ [][NextRegister]_vars

\* OAuth callbacks while an administrator switches u1's account off and on,
\* with and without a default role in the role table.
InitOAuth ==
  /\ InitRequests
  /\ defaultRole \in {NULL, "user"}
  /\ held = {}
  /\ config = [accessSecret |-> "k1", refreshSecret |-> "k2"]
  /\ users = InitialUsers
  /\ refreshTokens = {}
  /\ input = NoPayload
  /\ track = "lastOAuth"

NextOAuth ==
  \/ Tick
  \/ GoogleCallback
  \/ UpdateUserStatus

SpecOAuth == InitOAuth /\ [][NextOAuth]_vars

\* Every writer of the email column: registration, OAuth login, and profile
\* updates by the signed-in user and by an administrator.
InitEmails == InitStore /\ track = "none"

NextEmails ==
  \/ Login
  \/ RegisterStart
  \/ RegisterCreate
  \/ GoogleCallback
  \/ UpdateProfile
  \/ UpdateUser

SpecEmails == InitEmails /\ [][NextEmails]_vars

\* Every writer of the isRevoked column over the sessions open at the start:
\* login, rotation, logout, logout of all sessions, a password change, and the
\* cleanup that deletes rows.
InitRevoked == InitSessions /\ track = "none"

NextRevoked ==
  \/ Tick
  \/ Login
  \/ RefreshStart(1)
  \/ RefreshIssue(1)
  \/ RefreshRevoke(1)
  \/ Logout
  \/ LogoutAll
  \/ AuthChangePassword
  \/ Cleanup

SpecRevoked == InitRevoked /\ [][NextRevoked]_vars

\* Every way a pair is issued: password login, OAuth callback and refresh, one
\* request at a time.
InitIssue == InitStore /\ track = "issuedFor"

NextIssue ==
  \/ Tick
  \/ Login
  \/ GoogleCallback
  \/ RefreshStart(1)
  \/ RefreshIssue(1)
  \/ RefreshRevoke(1)

SpecIssue == InitIssue /\ [][NextIssue]_vars

\* Logins and refreshes, one request at a time, with the answers of the logins
\* recorded.
InitFailed == InitStore /\ track = "lastLogin"

NextFailed ==
  \/ Tick
  \/ Login
  \/ RefreshStart(1)
  \/ RefreshIssue(1)
  \/ RefreshRevoke(1)

SpecFailed == InitFailed /\ [][NextFailed]_vars

\* The login a refresh token descends from by rotation.
RECURSIVE RootOf(_)
RootOf(token) == IF token \in DOMAIN parentOf THEN RootOf(parentOf[token]) ELSE token

\* Rotation chains: logins and overlapping refreshes, with the parent of every
\* rotated token recorded.
InitChains == InitStore /\ track = "parentOf"

NextChains ==
  \/ Tick
  \/ Login
  \/ \E c \in CallIds : RefreshStart(c)
  \/ \E c \in CallIds : RefreshIssue(c)
  \/ \E c \in CallIds : RefreshRevoke(c)

SpecChains == InitChains /\ [][NextChains]_vars

\* Whether a refresh token descends by rotation from the token R.
RECURSIVE DescendsFrom(_, _)
DescendsFrom(token, R) ==
  /\ token \in DOMAIN parentOf
  /\ (parentOf[token] = R \/ DescendsFrom(parentOf[token], R))

\* One refreshTokens call at a time, with logout, logout-all and password
\* change running between its steps.
InitRace == InitStore /\ track = "parentOf"

NextRace ==
  \/ Tick
  \/ Login
  \/ RefreshStart(1)
  \/ RefreshIssue(1)
  \/ RefreshRevoke(1)
  \/ Logout
  \/ LogoutAll
  \/ AuthChangePassword

SpecRace == InitRace /\ [][NextRace]_vars

\* The sweep over a failing store, with logins and logouts filling both tables
\* next to the row of a session opened one second before the start.
InitCleanup ==
  /\ InitCommon
  /\ config = [accessSecret |-> "k1", refreshSecret |-> "k2"]
  /\ users = InitialUsers
  /\ refreshTokens = {RefreshTokenRow(EarlierToken, "u1")}
  /\ input = NoPayload
  /\ track = "lastCleanup"

NextCleanup ==
  \/ Tick
  \/ Login
  \/ Logout
  \/ CleanupOverFaults

SpecCleanup == InitCleanup /\ [][NextCleanup]_vars

\* Requests through authenticate over a blacklist whose lookup may fail.
InitAuthn == InitStore /\ track = "lastAuthn"

NextAuthn ==
  \/ Tick
  \/ Login
  \/ Logout
  \/ Authenticate

SpecAuthn == InitAuthn /\ [][NextAuthn]_vars

\* Guarded requests with the tokens of the sessions open at the start, while
\* an administrator deactivates, strips and deletes the account.
InitCurrent == InitSessions /\ track = "lastRequest"

NextCurrent ==
  \/ Tick
  \/ UpdateUserStatus
  \/ RemoveUserRole
  \/ DeleteUser
  \/ AuthorizedRequest

SpecCurrent == InitCurrent /\ [][NextCurrent]_vars

\* The bundled client signing in and refreshing its session as time passes.
InitClient == InitStore /\ track = "localStorage"

NextClient ==
  \/ Tick
  \/ ClientLogin
  \/ ClientRefresh

SpecClient == InitClient /\ [][NextClient]_vars

\* Forgotten-password requests while an administrator switches the account
\* off and on.
InitForgot == InitSessions /\ track = "lastForgot"

NextForgot ==
  \/ Tick
  \/ ForgotPassword
  \/ UpdateUserStatus

SpecForgot == InitForgot /\ [][NextForgot]_vars

\* Requests through the permission middleware while an administrator removes
\* roles; the user's roles and direct permissions are drawn at the start.
InitAuthz ==
  /\ InitCommon
  /\ config = [accessSecret |-> "k1", refreshSecret |-> "k2"]
  /\ \E roles \in SUBSET RoleNames, permissions \in SUBSET PermNames :
       users = [InitialUsers EXCEPT !["u1"].roles = roles,
                                    !["u1"].permissions = permissions]
  /\ refreshTokens = {}
  /\ input = NoPayload
  /\ track = "lastAuthz"

NextAuthz ==
  \/ HasRole
  \/ HasPermission
  \/ HasPermissionAny
  \/ HasPermissionAll
  \/ IsOwnerOrHasPermission
  \/ IsSelfOrHasRole
  \/ RemoveUserRole

SpecAuthz == InitAuthz /\ [][NextAuthz]_vars

\* =============================================================== claims
NotExpired(token) == ClockTimestamp(now) < JwtDecode(token).exp

SeqToSet(list) == {list[i] : i \in 1..Len(list)}

\* The union of the permission names of a row's roles and its direct permissions.
EffectivePermissionSet(row) ==
  UNION {SeqToSet(RolePermissions[r]) : r \in row.roles} \cup row.permissions

\* A list that names each effective permission of the row exactly once.
ResolvesTo(list, row) ==
  /\ SeqToSet(list) = EffectivePermissionSet(row)
  /\ Len(list) = Cardinality(SeqToSet(list))

\* C1: of two refreshTokens calls that run concurrently on the same refresh
\* token, at most one returns a new pair.
C1_ConcurrentRefreshAtMostOne ==
  \A t \in DOMAIN redeemed : redeemed[t].concurrent <= 1

\* C2: rotation is one-shot: a refresh token is redeemed at most once over its
\* lifetime, and once it has been redeemed a refreshTokens call on it fails.
C2_RotationOneShot ==
  \A t \in DOMAIN redeemed : redeemed[t].total <= 1 /\ ~RefreshCheck(t).ok

\* C3: after revokeAllUserTokens(userId) has completed, a refreshTokens call
\* fails on every refresh token the user held, and with the invalid-or-revoked
\* error while the token has not expired.
C3_RevokeAllKillsTokens ==
  \A t \in revokedAllSeen :
    /\ ~RefreshCheck(t).ok
    /\ NotExpired(t) => RefreshCheck(t).message = "Refresh token is invalid or revoked"

C3_Witness ==
  \E t \in revokedAllSeen :
    /\ NotExpired(t)
    /\ verifyRefreshToken(t, now).ok
    /\ \E r \in refreshTokens : r.token = t /\ r.isRevoked
    /\ RefreshCheck(t).message = "Refresh token is invalid or revoked"

\* C4: after a successful password change through any entry point,
\* refreshTokens fails on every refresh token the user held before the change.
C4_PasswordChangeRevokes ==
  \A t \in passwordChanged : ~RefreshCheck(t).ok

\* C5: cross-type rejection: verifyAccessToken fails, at every time, on a token
\* minted by generateRefreshToken, and verifyRefreshToken on a token minted by
\* generateAccessToken, whatever the payload and the secrets.
C5_CrossTypeRejected ==
  \A t \in Times :
    /\ minted.refreshToken # NoToken => ~verifyAccessToken(minted.refreshToken, t).ok
    /\ minted.accessToken # NoToken => ~verifyRefreshToken(minted.accessToken, t).ok

C5_Witness ==
  /\ minted.kind = "refresh"
  /\ config.accessSecret = config.refreshSecret
  /\ verifyRefreshToken(minted.refreshToken, now).ok
  /\ verifyAccessToken(minted.refreshToken, now).message = "Invalid token type"

\* C6: round trip: right after generateTokenPair, verifyAccessToken accepts the
\* access token and verifyRefreshToken the refresh token, and both return the
\* userId, roles and permissions the pair was generated for.
C6_PairRoundTrip ==
  minted.kind = "pair" =>
    LET a == verifyAccessToken(minted.accessToken, minted.at)
        r == verifyRefreshToken(minted.refreshToken, minted.at)
    IN /\ a.ok
       /\ r.ok
       /\ a.decoded.userId = minted.payload.userId
       /\ a.decoded.roles = minted.payload.roles
       /\ a.decoded.permissions = minted.payload.permissions
       /\ r.decoded.userId = minted.payload.userId
       /\ r.decoded.roles = minted.payload.roles
       /\ r.decoded.permissions = minted.payload.permissions

C6_Witness ==
  /\ minted.kind = "pair"
  /\ minted.payload.roles # <<>>
  /\ minted.payload.permissions # <<>>
  /\ config.accessSecret # config.refreshSecret
  /\ verifyAccessToken(minted.accessToken, minted.at).ok
  /\ verifyRefreshToken(minted.refreshToken, minted.at).ok

C8_LogoutInvalidates ==
  \A t \in loggedOut :
    /\ ~AuthenticateOutcome(AccessTokenOf(t)).ok
    /\ ~RefreshCheck(t).ok

\* An email no user row holds.
UnknownEmail == "c@x"

\* C9: on each password login path, an attempt that fails for a missing user,
\* for a user without a password hash or for a wrong password gets the status
\* and message that an attempt with an unknown email gets on that path.
C9_UniformCredentialError ==
  lastLogin.case \in {"no_user", "no_password", "wrong_password"} =>
    LET ref == IF lastLogin.path = "login"
                 THEN LoginOutcome(UnknownEmail, "p1")
                 ELSE LocalStrategyOutcome(UnknownEmail, "p1")
    IN /\ lastLogin.status = ref.status
       /\ lastLogin.message = ref.message

\* C10: the login checks run in the order credentials, isActive, emailVerified:
\* a wrong password gets the invalid-credentials error whatever the flags, a
\* correct password on an inactive account the account-disabled error, a correct
\* password on an active, unverified account the email-not-verified error, and
\* a pair is issued only when all three checks pass.
C10_LoginCheckOrder ==
  /\ lastLogin.case = "wrong_password" =>
       lastLogin.status = 401 /\ lastLogin.message = "Invalid email or password"
  /\ lastLogin.case = "match" /\ ~lastLogin.isActive =>
       lastLogin.status = 401 /\ lastLogin.message = "Your account has been disabled"
  /\ lastLogin.case = "match" /\ lastLogin.isActive /\ ~lastLogin.emailVerified =>
       /\ lastLogin.status = 401
       /\ lastLogin.message = "Please verify your email address before signing in"
  /\ lastLogin.issued =>
       lastLogin.case = "match" /\ lastLogin.isActive /\ lastLogin.emailVerified

C10_Witness ==
  /\ lastLogin.path = "login"
  /\ lastLogin.case = "match"
  /\ ~lastLogin.isActive
  /\ ~lastLogin.emailVerified
  /\ lastLogin.message = "Your account has been disabled"

\* C11: wherever roles are resolved to permissions, the result names each
\* permission of the union of the roles' permissions and the direct permissions
\* exactly once: for every user row as the middleware and the OAuth callbacks
\* read it, and in the tokens login and refreshTokens return.
C11_EffectivePermissions ==
  /\ \A u \in UserIds : ResolvesTo(AllPermissions(users[u]), UserRow(u))
  /\ issuedFor.via # "none" =>
       /\ ResolvesTo(JwtDecode(issuedFor.pair.accessToken).permissions, issuedFor.user)
       /\ ResolvesTo(JwtDecode(issuedFor.pair.refreshToken).permissions, issuedFor.user)

C11_Witness ==
  /\ issuedFor.via = "refresh"
  /\ issuedFor.user.roles = {"admin", "user"}
  /\ issuedFor.user.permissions = {"profile:read"}
  /\ JwtDecode(issuedFor.pair.accessToken).permissions = <<"users:write", "profile:read">>

\* The observed request was let through to the handler.
Admitted == lastAuthz.status = 200

\* C12: hasRole admits an authenticated identity exactly when one of the
\* required roles is among its roles; hasPermission and hasPermissionAny admit
\* it exactly when one of the required permissions is in its effective set;
\* with an empty required list all three admit nobody.
C12_AnyOfAdmits ==
  /\ (lastAuthz.kind = "hasRole" /\ lastAuthz.user.id # NULL) =>
       (Admitted <=> SeqToSet(lastAuthz.required) \cap lastAuthz.user.roles # {})
  /\ (lastAuthz.kind \in {"hasPermission", "hasPermissionAny"} /\ lastAuthz.user.id # NULL) =>
       (Admitted <=>
          SeqToSet(lastAuthz.required) \cap EffectivePermissionSet(lastAuthz.user) # {})
  /\ (lastAuthz.kind \in {"hasRole", "hasPermission", "hasPermissionAny"}
        /\ lastAuthz.required = <<>>) => ~Admitted

\* A permission list whose first name the identity lacks and whose second it
\* holds through a role lets it in.
C12_Witness ==
  /\ lastAuthz.kind = "hasPermission"
  /\ lastAuthz.required = <<"users:write", "profile:read">>
  /\ lastAuthz.user.roles = {"user"}
  /\ lastAuthz.user.permissions = {}
  /\ Admitted

\* C13: hasPermissionAll admits an authenticated identity exactly when every
\* required permission is in its effective set, hence everyone authenticated
\* when the list is empty, and answers 403 when one is missing.
C13_AllOfAdmits ==
  (lastAuthz.kind = "hasPermissionAll" /\ lastAuthz.user.id # NULL) =>
    /\ Admitted <=> SeqToSet(lastAuthz.required) \subseteq EffectivePermissionSet(lastAuthz.user)
    /\ lastAuthz.required = <<>> => Admitted
    /\ ~(SeqToSet(lastAuthz.required) \subseteq EffectivePermissionSet(lastAuthz.user)) =>
         lastAuthz.status = 403

\* One of two required permissions is missing: 403.
C13_Witness ==
  /\ lastAuthz.kind = "hasPermissionAll"
  /\ lastAuthz.required = <<"profile:read", "users:write">>
  /\ EffectivePermissionSet(lastAuthz.user) = {"profile:read"}
  /\ lastAuthz.status = 403

\* C14: isOwnerOrHasPermission admits an authenticated identity exactly when
\* it owns the resource or holds one of the required permissions, and
\* isSelfOrHasRole exactly when it is the target or holds one of the required
\* roles.
C14_OwnerOrSelfAdmits ==
  /\ (lastAuthz.kind = "isOwnerOrHasPermission" /\ lastAuthz.user.id # NULL) =>
       (Admitted <=>
          \/ lastAuthz.user.id = lastAuthz.target
          \/ SeqToSet(lastAuthz.required) \cap EffectivePermissionSet(lastAuthz.user) # {})
  /\ (lastAuthz.kind = "isSelfOrHasRole" /\ lastAuthz.user.id # NULL) =>
       (Admitted <=>
          \/ lastAuthz.user.id = lastAuthz.target
          \/ SeqToSet(lastAuthz.required) \cap lastAuthz.user.roles # {})

\* The owner gets in without any permission and with nothing required.
C14_Witness ==
  /\ lastAuthz.kind = "isOwnerOrHasPermission"
  /\ lastAuthz.user.id = "u1"
  /\ lastAuthz.target = "u1"
  /\ lastAuthz.user.roles = {}
  /\ lastAuthz.user.permissions = {}
  /\ lastAuthz.required = <<>>
  /\ Admitted

\* What each middleware's predicate is, over the observed request.
PredicateHolds ==
  CASE lastAuthz.kind = "hasRole" ->
         SeqToSet(lastAuthz.required) \cap lastAuthz.user.roles # {}
    [] lastAuthz.kind \in {"hasPermission", "hasPermissionAny"} ->
         SeqToSet(lastAuthz.required) \cap EffectivePermissionSet(lastAuthz.user) # {}
    [] lastAuthz.kind = "hasPermissionAll" ->
         SeqToSet(lastAuthz.required) \subseteq EffectivePermissionSet(lastAuthz.user)
    [] lastAuthz.kind = "isOwnerOrHasPermission" ->
         \/ lastAuthz.user.id = lastAuthz.target
         \/ SeqToSet(lastAuthz.required) \cap EffectivePermissionSet(lastAuthz.user) # {}
    [] lastAuthz.kind = "isSelfOrHasRole" ->
         \/ lastAuthz.user.id = lastAuthz.target
         \/ SeqToSet(lastAuthz.required) \cap lastAuthz.user.roles # {}
    [] OTHER -> FALSE

\* C15: every middleware answers 401 exactly when no identity is attached and
\* 403 exactly when one is attached and the predicate is false, and lets the
\* request through only when the predicate is true.
C15_StatusByCause ==
  lastAuthz.kind # "none" =>
    /\ lastAuthz.status = 401 <=> lastAuthz.user.id = NULL
    /\ lastAuthz.status = 403 <=> (lastAuthz.user.id # NULL /\ ~PredicateHolds)
    /\ Admitted => (lastAuthz.user.id # NULL /\ PredicateHolds)

\* An identity without the required role is answered 403, not 401.
C15_Witness ==
  /\ lastAuthz.kind = "isSelfOrHasRole"
  /\ lastAuthz.user.id = "u1"
  /\ lastAuthz.target = "u2"
  /\ lastAuthz.required = <<"admin">>
  /\ lastAuthz.user.roles = {"user"}
  /\ lastAuthz.status = 403

\* C16: verifyAccessToken and verifyRefreshToken report a token whose exp has
\* passed with the expired-token error of its kind, and a token of the other
\* type or under the wrong signature with another error, so the two causes can
\* be told apart.
C16_ExpiredDistinguished ==
  /\ minted.kind = "access" =>
       LET v == verifyAccessToken(minted.accessToken, now) IN
       /\ ~NotExpired(minted.accessToken) => (~v.ok /\ v.message = "Access token expired")
       /\ NotExpired(minted.accessToken) => v.ok
       /\ LET w == verifyRefreshToken(minted.accessToken, now) IN
          NotExpired(minted.accessToken) =>
            (~w.ok /\ w.message \in {"Invalid refresh token", "Invalid token type"})
  /\ minted.kind = "refresh" =>
       LET v == verifyRefreshToken(minted.refreshToken, now) IN
       /\ ~NotExpired(minted.refreshToken) => (~v.ok /\ v.message = "Refresh token expired")
       /\ NotExpired(minted.refreshToken) => v.ok
       /\ LET w == verifyAccessToken(minted.refreshToken, now) IN
          NotExpired(minted.refreshToken) =>
            (~w.ok /\ w.message \in {"Invalid access token", "Invalid token type"})

\* The refreshTokens call observed was made with a refresh token signed under
\* the configured secret.
CorrectlySigned ==
  /\ lastRefresh.token # NoToken
  /\ lastRefresh.token.sig = config.refreshSecret
  /\ JwtDecode(lastRefresh.token).type = "refresh"

\* C17: refreshTokens on a correctly signed refresh token answers with the
\* invalid-token error when the token has no row or its row is revoked, with
\* the expired-token error when the row's expiresAt has passed, with the
\* account-disabled error when the user is inactive, and returns a pair only
\* when none of these holds.
C17_RefreshErrors ==
  CorrectlySigned =>
    /\ (~lastRefresh.hadRow \/ lastRefresh.revoked) =>
         /\ ~lastRefresh.issued
         /\ lastRefresh.message \in {"Refresh token is invalid or revoked",
                                      "Invalid refresh token"}
    /\ (lastRefresh.hadRow /\ ~lastRefresh.revoked /\ lastRefresh.rowExpired) =>
         /\ ~lastRefresh.issued
         /\ lastRefresh.message = "Refresh token expired"
    /\ (lastRefresh.hadRow /\ ~lastRefresh.revoked /\ ~lastRefresh.rowExpired
          /\ lastRefresh.disabled) =>
         /\ ~lastRefresh.issued
         /\ lastRefresh.message = "User account is disabled"
    /\ lastRefresh.issued =>
         /\ lastRefresh.hadRow
         /\ ~lastRefresh.revoked
         /\ ~lastRefresh.rowExpired
         /\ ~lastRefresh.disabled

\* C18: the pair refreshTokens returns carries the roles and the effective
\* permissions the user has in the store when the call reads it, whatever the
\* token presented says: a role removed since that token was issued is in
\* neither new token.
C18_RefreshReadsStore ==
  issuedFor.via = "refresh" =>
    \A token \in {issuedFor.pair.accessToken, issuedFor.pair.refreshToken} :
      /\ SeqToSet(JwtDecode(token).roles) = issuedFor.user.roles
      /\ SeqToSet(JwtDecode(token).permissions) = EffectivePermissionSet(issuedFor.user)

\* The token presented says admin; the role was removed before the refresh.
C18_Witness ==
  /\ issuedFor.via = "refresh"
  /\ "admin" \in SeqToSet(JwtDecode(issuedFor.old).roles)
  /\ "users:write" \in SeqToSet(JwtDecode(issuedFor.old).permissions)
  /\ issuedFor.user.roles = {"user"}
  /\ "admin" \notin SeqToSet(JwtDecode(issuedFor.pair.accessToken).roles)
  /\ "users:write" \notin SeqToSet(JwtDecode(issuedFor.pair.refreshToken).permissions)

\* C19: a refresh token exchanged for a new pair by a call whose revoke of
\* the old row failed is unusable from then on: every later refreshTokens
\* call on it fails.
C19_UnusableAfterFailedRevoke ==
  \A token \in revokeFailed : ~RefreshCheck(token).ok

\* The refresh tokens a client may name: those handed out and those with a row.
KnownTokens == held \cup {r.token : r \in refreshTokens}

\* C20: revokeRefreshToken returns normally for every token, also for one
\* that has no row; it changes nothing but isRevoked of the row of the token
\* named; and calling it twice leaves the store as calling it once does.
C20_RevokeIdempotentTotal ==
  \A token \in KnownTokens :
    LET once == RevokeRefreshTokenOutcome(refreshTokens, token)
        twice == RevokeRefreshTokenOutcome(once.rows, token)
    IN /\ once.error = NULL
       /\ twice.error = NULL
       /\ twice.rows = once.rows
       /\ {r \in once.rows : r.token # token} = {r \in refreshTokens : r.token # token}
       /\ {[r EXCEPT !.isRevoked = TRUE] : r \in {x \in refreshTokens : x.token = token}}
            = {r \in once.rows : r.token = token}
       /\ FindRefreshToken(refreshTokens, token) = {} => once.rows = refreshTokens

\* A token handed out whose row is gone, next to a revoked and a live row.
C20_Witness ==
  /\ \E token \in held : FindRefreshToken(refreshTokens, token) = {}
  /\ \E r \in refreshTokens : r.isRevoked
  /\ \E r \in refreshTokens : ~r.isRevoked

\* C21: AuthService.logout returns normally whatever happens to its two
\* writes: a failing store, an access token already blacklisted, a token that
\* does not decode, a refresh token without a row.
C21_LogoutNeverThrows ==
  lastLogout.called => lastLogout.error = NULL

\* Both writes failed; and a token blacklisted before was blacklisted again.
C21_Witness ==
  /\ lastLogout.called
  /\ lastLogout.wasBlacklisted
  /\ ~lastLogout.blacklistFails
  /\ lastLogout.revokeFails
  /\ lastLogout.refreshToken # MalformedToken

\* C22: when changePassword or resetPassword has stored the new password hash
\* and the bulk revocation of the refresh tokens then fails in the store, the
\* caller is still told the operation succeeded.
C22_PasswordChangeSurvivesRevokeFailure ==
  (lastPassword.persisted /\ lastPassword.revokeFails) => lastPassword.status = 200

C24_ResetPassword ==
  lastPassword.op = "reset" =>
    /\ ~lastPassword.tokenLive =>
         /\ lastPassword.status = 400
         /\ lastPassword.message = "Invalid or expired reset token"
         /\ ~lastPassword.changed
    /\ lastPassword.status = 200 =>
         /\ lastPassword.tokenLive
         /\ lastPassword.hashStored
         /\ lastPassword.cleared
         /\ lastPassword.allRevoked
         /\ FindUserByResetToken(lastPassword.token) = {}
         /\ \A u \in DOMAIN users : users[u].passwordResetToken # lastPassword.token

\* u1 asked for a reset and used the token while two sessions were open.
C24_Witness ==
  /\ lastPassword.op = "reset"
  /\ lastPassword.status = 200
  /\ lastPassword.userId = "u1"
  /\ users["u1"].password = bcryptHash("p2")
  /\ Cardinality({r \in refreshTokens : r.userId = "u1" /\ r.isRevoked}) = 2
  /\ \E r \in refreshTokens : r.userId = "u2" /\ ~r.isRevoked

\* C25: forgotPassword answers the caller the same way whether or not a user
\* with the email exists and whatever the state of that user: the response is
\* the one an empty users table gives.
C25_ForgotPasswordUniform ==
  (lastForgot.called /\ ~lastForgot.mailFails) =>
    LET unknown == ForgotPasswordResponse(<<>>, lastForgot.email, FALSE) IN
    /\ lastForgot.status = unknown.status
    /\ lastForgot.message = unknown.message

\* C26: with a default role in the role table, a login with the registered
\* email and password before verifyEmail fails with the email-not-verified
\* error, and the first one after verifyEmail with the issued token succeeds
\* with a pair whose roles claim contains the default role.
C26_RegisterVerifyLogin ==
  (defaultRole # NULL /\ signup.login.called) =>
    IF signup.login.verified
      THEN signup.login.first =>
             /\ signup.login.status = 200
             /\ InSeq(defaultRole, signup.login.roles)
      ELSE /\ signup.login.status = 401
           /\ signup.login.message = "Please verify your email address before signing in"

C26_Witness ==
  /\ defaultRole # NULL
  /\ signup.login.called
  /\ signup.login.verified
  /\ signup.login.first
  /\ signup.login.status = 200
  /\ signup.email = "C@x"

\* C27: every stored email is in lower case, no two users share an email, and
\* every user with a password is the one login's lower-cased lookup finds.
C27_EmailsNormalizedUnique ==
  /\ \A u \in DOMAIN users : users[u].email = toLowerCase(users[u].email)
  /\ \A u, v \in DOMAIN users : u # v => users[u].email # users[v].email
  /\ \A u \in DOMAIN users :
       users[u].password # NULL => u \in FindUserByEmail(toLowerCase(users[u].email))

\* C28: an OAuth callback whose resulting account is inactive issues no pair
\* and creates no refresh token row for the user; a callback for a profile no
\* user matches leaves a user with emailVerified true and the default role,
\* when the role table has one.
C28_OAuthCallback ==
  lastOAuth.called =>
    /\ ~lastOAuth.active => (~lastOAuth.issued /\ ~lastOAuth.rowCreated
                             /\ lastOAuth.redirect = "oauth_error")
    /\ ~lastOAuth.known =>
         /\ lastOAuth.userId \in DOMAIN users
         /\ lastOAuth.emailVerified
         /\ defaultRole # NULL => defaultRole \in lastOAuth.roles

C28_Witness ==
  /\ lastOAuth.called
  /\ lastOAuth.known
  /\ ~lastOAuth.active
  /\ lastOAuth.profile.email = "A@x"
  /\ users["u1"].googleId = "g3"
  /\ \E u \in DOMAIN users \ UserIds : users[u].emailVerified /\ defaultRole \in users[u].roles

\* C29: a refresh token row whose isRevoked is true keeps it true for as long
\* as the row is stored: no step writes it back to false.
C29_RevokedMonotonic ==
  [][\A r \in refreshTokens : \A s \in refreshTokens' :
       (r.isRevoked /\ s.token = r.token) => s.isRevoked]_vars

C29_Witness ==
  /\ users["u1"].password # InitialUsers["u1"].password
  /\ \E r \in refreshTokens :
       /\ r.userId = "u1"
       /\ r.isRevoked
       /\ isTokenBlacklisted(AccessTokenOf(r.token))

\* C30: the expiresAt of every refresh token row is the instant of the exp
\* claim in the row's token.
C30_ExpiresAtIsExp ==
  \A r \in refreshTokens : r.expiresAt = DateOfExp(JwtDecode(r.token).exp)

C30_Witness ==
  /\ \E r \in refreshTokens : JwtDecode(r.token).iat > 0 /\ r.userId = "u2"
  /\ \E r \in refreshTokens : r.isRevoked

\* C31: a step in which login, an OAuth callback or refreshTokens returns a
\* pair leaves a row stored for the refresh token returned; a login or
\* callback that returns a pair adds that row and no other, a refreshTokens
\* call adds exactly the row of the pair it goes on to return, a call whose
\* create fails returns nothing, and no step adds two rows.
C31_OneRowPerIssuance ==
  [][/\ Cardinality(refreshTokens' \ refreshTokens) <= 1
     /\ issuedFor' # issuedFor =>
          LET row == RefreshTokenRow(issuedFor'.pair.refreshToken, issuedFor'.user.id) IN
          /\ \E r \in refreshTokens' : r.token = row.token /\ r.userId = row.userId
          /\ issuedFor'.via \in {"login", "oauth"} => refreshTokens' \ refreshTokens = {row}
     /\ \A c \in CallIds :
          calls[c].pc = "issue" /\ calls'[c].pc # "issue" =>
            IF calls'[c].pc = "revoke"
              THEN refreshTokens' \ refreshTokens =
                     {RefreshTokenRow(calls'[c].pair.refreshToken, calls[c].userId)}
              ELSE refreshTokens' = refreshTokens /\ issuedFor' = issuedFor
     /\ refreshTokens' \ refreshTokens # {} =>
          \/ issuedFor' # issuedFor
          \/ \E c \in CallIds : calls[c].pc = "issue" /\ calls'[c].pc = "revoke"]_vars

C31_Witness ==
  /\ issuedFor.via = "refresh"
  /\ \E r \in refreshTokens : r.token = issuedFor.pair.refreshToken /\ ~r.isRevoked
  /\ \E r \in refreshTokens : r.token = issuedFor.old /\ r.isRevoked
  /\ \E r \in refreshTokens : r.userId \notin UserIds

\* C34: issuing a pair never fails on the unique token column: a login whose
\* credentials and account pass every check is answered with a pair, also when
\* the same user was issued one within the same second.
C34_IssuanceNeverCollides ==
  (/\ lastLogin.path = "login"
   /\ lastLogin.case = "match"
   /\ lastLogin.isActive
   /\ lastLogin.emailVerified) => (lastLogin.status = 200 /\ lastLogin.issued)

\* C38: a login answered with an error, a refreshTokens call rejected by its
\* checks and one whose create fails change no refresh token row, no blacklist
\* row and no user's lastLoginAt.
C38_FailedCallChangesNothing ==
  [][LET failedLogin == /\ lastLogin' # lastLogin
                        /\ lastLogin'.path = "login"
                        /\ lastLogin'.status # 200
         failedRefresh == \E c \in CallIds :
                            /\ calls[c].pc \in {"idle", "issue"}
                            /\ calls'[c].pc = "idle"
                            /\ calls' # calls \/ lastRefresh' # lastRefresh
     IN (failedLogin \/ failedRefresh) =>
          /\ refreshTokens' = refreshTokens
          /\ blacklistedTokens' = blacklistedTokens
          /\ DOMAIN users' = DOMAIN users
          /\ \A u \in DOMAIN users : users'[u].lastLoginAt = users[u].lastLoginAt]_vars

\* C32: whenever no refresh is in flight, at most one of the refresh tokens
\* descended by rotation from one login is not revoked.
C32_OneLivePerChain ==
  (\A c \in CallIds : ~InFlight(c)) =>
    \A r, s \in refreshTokens :
      (~r.isRevoked /\ ~s.isRevoked /\ RootOf(r.token) = RootOf(s.token)) => r = s


\* C35: once a refreshTokens(R) call has completed whose token R was revoked
\* between its check and its issuance, no refresh token descended from R is
\* left non-revoked.
C35_RevocationReachesDescendants ==
  ~InFlight(1) =>
    \A R \in revokedInFlight :
      \A r \in refreshTokens : DescendsFrom(r.token, R) => r.isRevoked


\* Rows of a table the sweep's condition selects.
C33_Expired(rows) == {r \in rows : r.expiresAt < now}

\* C33: cleanupExpiredTokens never throws; each of its two deleteMany calls that
\* runs without failing deletes exactly the rows of its table whose expiresAt is
\* strictly before now, a call that fails (or is skipped because the first one
\* failed) leaves its table as it was, and no blacklist entry with
\* now < expiresAt is ever deleted.
C33_SweepDeletesExpiredOnly ==
  [][lastCleanup' # lastCleanup =>
       /\ ~lastCleanup'.thrown
       /\ refreshTokens' = IF lastCleanup'.refreshFails
                             THEN refreshTokens
                             ELSE refreshTokens \ C33_Expired(refreshTokens)
       /\ blacklistedTokens' = IF lastCleanup'.refreshFails \/ lastCleanup'.blacklistFails
                                 THEN blacklistedTokens
                                 ELSE blacklistedTokens \ C33_Expired(blacklistedTokens)
       /\ \A b \in blacklistedTokens : now < b.expiresAt => b \in blacklistedTokens']_vars

\* A sweep without failure has just run; expired rows of both tables are gone
\* and a row of each table that is still valid remains.
C33_Witness ==
  /\ lastCleanup.called
  /\ ~lastCleanup.refreshFails /\ ~lastCleanup.blacklistFails
  /\ \E r \in refreshTokens : r.expiresAt >= now
  /\ \E b \in blacklistedTokens : now < b.expiresAt
  /\ lastCleanup.deletedRefresh > 0
  /\ lastCleanup.deletedBlacklist > 0

\* C33 as stated: every call deletes exactly the expired rows of both tables.
C33_SweepAlwaysExact ==
  [][lastCleanup' # lastCleanup =>
       /\ ~lastCleanup'.thrown
       /\ refreshTokens' = refreshTokens \ C33_Expired(refreshTokens)
       /\ blacklistedTokens' = blacklistedTokens \ C33_Expired(blacklistedTokens)]_vars


\* C36: authenticate admits no request whose bearer token has a blacklist row
\* with expiresAt later than now, whether or not the blacklist lookup fails.
C36_BlacklistFailsClosed ==
  (lastAuthn.called /\ lastAuthn.blacklisted) => ~lastAuthn.ok


\* C37: a request is admitted by authenticate only while the user its token
\* names is stored and active, and passes hasRole / hasPermission only on a
\* role or permission the stored user has at the time of the request, whatever
\* the token's claims say.
C37_DecidesOnCurrentStore ==
  [][lastRequest'.flip # lastRequest.flip =>
       LET q == lastRequest' IN
       /\ q.admitted => (q.userId \in DOMAIN users' /\ users'[q.userId].isActive)
       /\ q.passed =>
            /\ q.admitted
            /\ \E i \in 1..Len(q.required) :
                 IF q.kind = "hasRole"
                   THEN q.required[i] \in users'[q.userId].roles
                   ELSE q.required[i] \in SeqToSet(AllPermissions(users'[q.userId]))
       /\ (q.admitted /\ ~q.passed) =>
            \A i \in 1..Len(q.required) :
              IF q.kind = "hasRole"
                THEN q.required[i] \notin users'[q.userId].roles
                ELSE q.required[i] \notin SeqToSet(AllPermissions(users'[q.userId]))]_vars

\* An admitted request was refused a role that its token's claims carry and
\* the stored user no longer has.
C37_Witness ==
  /\ lastRequest.called
  /\ lastRequest.kind = "hasRole"
  /\ lastRequest.admitted
  /\ lastRequest.claimsPass
  /\ ~lastRequest.passed


\* Every token a client may hold: the pairs generateTokenPair can have minted
\* for a stored user up to now.
C39_Tokens ==
  UNION {{TokenPair(u, users[u].email, RoleNamesOf(users[u]),
                    AllPermissions(users[u]), ms).refreshToken,
          TokenPair(u, users[u].email, RoleNamesOf(users[u]),
                    AllPermissions(users[u]), ms).accessToken} :
         u \in DOMAIN users, ms \in (0 - MsPerSec)..now}

\* C39: in every state, for every token and every time from now on, the checks
\* of refreshTokens, the unique-column test of the issuance, isTokenBlacklisted
\* and authenticate answer the same over the stored tables as over the tables
\* cleanupExpiredTokens would leave.
C39_SweepIsNeutral ==
  \A token \in C39_Tokens, ms \in now..(MaxTime + 1) :
    /\ RefreshCheckOver(cleanupExpiredTokens(refreshTokens), token, ms)
         = RefreshCheckOver(refreshTokens, token, ms)
    /\ \A u \in DOMAIN users :
         LET fresh == TokenPair(u, users[u].email, RoleNamesOf(users[u]),
                                 AllPermissions(users[u]), ms).refreshToken
         IN StoreRefreshTokenFails(cleanupExpiredTokens(refreshTokens), fresh)
              = StoreRefreshTokenFails(refreshTokens, fresh)
    /\ \A lookupFails \in BOOLEAN :
         /\ isTokenBlacklistedOver(cleanupExpiredTokens(blacklistedTokens), token, ms, lookupFails)
              = isTokenBlacklistedOver(blacklistedTokens, token, ms, lookupFails)
         /\ AuthenticateOver(cleanupExpiredTokens(blacklistedTokens), token, ms, lookupFails)
              = AuthenticateOver(blacklistedTokens, token, ms, lookupFails)

\* A sweep has run, and both tables again hold a row a further sweep would
\* delete next to a row it would keep.
C39_Witness ==
  /\ lastCleanup.called
  /\ \E r \in refreshTokens : r.expiresAt < now
  /\ \E r \in refreshTokens : r.expiresAt > now /\ ~r.isRevoked
  /\ \E b \in blacklistedTokens : b.expiresAt < now


\* C40: once the bundled client has refreshed its session successfully, the
\* refresh token in its localStorage is the current, non-revoked refresh token
\* of its chain, so that its next refresh can succeed.
C40_ClientHoldsCurrentToken ==
  localStorage.refreshes >= 1 =>
    \E r \in refreshTokens : r.token = localStorage.refreshToken /\ ~r.isRevoked

====
